---- MODULE Spec2Model ----
(***************************************************************************)
(* Model of the filter-expression core of kibana-nested-tree.              *)
(*                                                                         *)
(* FilterStateService (filter-state.service.ts) holds one FilterTree in a  *)
(* BehaviorSubject and replaces it on every edit.  A FilterNode is either  *)
(* a FilterCondition (a record with the key "field") or a BooleanNode (a   *)
(* record with the keys "operator" and "children" and without "field");    *)
(* the discrimination is by key presence, as in filter.model.ts.           *)
(***************************************************************************)
EXTENDS Integers, Sequences, FiniteSets, TLC

\* ------------------------------------------------------------------ bounds
\* generateId is modelled as a counter; no call is taken that would issue an
\* id above MaxId.
MaxId == 7

\* ------------------------------------------------------------ basic values
\* The JavaScript null held by FilterTree.root when the tree is empty.
null == [null |-> TRUE]

Relations == {"AND", "OR"}

\* Partial<FilterCondition> values handed to addFilter by the UI.
Filters ==
  { [field |-> "host.keyword", operator |-> "is", value |-> "web01"] }

\* ------------------------------------------------------------- type guards
isBooleanNode(node) ==
  /\ "operator" \in DOMAIN node
  /\ "children" \in DOMAIN node
  /\ "field" \notin DOMAIN node

isFilterCondition(node) ==
  /\ "field" \in DOMAIN node
  /\ ~("operator" \in DOMAIN node /\ "children" \in DOMAIN node)

\* filter[key] || dflt  (an absent key and the empty string are both falsy)
OrDefault(filter, key, dflt) ==
  IF key \in DOMAIN filter /\ filter[key] # "" THEN filter[key] ELSE dflt

\* The object literal built by initializeWithFilter and addFilter.
NewCondition(id, filter) ==
  [ id          |-> id,
    field       |-> OrDefault(filter, "field", ""),
    operator    |-> OrDefault(filter, "operator", ""),
    value       |-> OrDefault(filter, "value", ""),
    minOperator |-> OrDefault(filter, "minOperator", "gt"),
    minValue    |-> OrDefault(filter, "minValue", ""),
    maxOperator |-> OrDefault(filter, "maxOperator", "lt"),
    maxValue    |-> OrDefault(filter, "maxValue", "") ]

\* { ...node, ...updates }
Spread(node, updates) ==
  [k \in (DOMAIN node) \cup (DOMAIN updates) |->
     IF k \in DOMAIN updates THEN updates[k] ELSE node[k]]

\* ------------------------------------------------------- tree measurements
RECURSIVE NodeIdSeq(_)
\* ids of all nodes of a subtree, in pre-order, with repetitions
NodeIdSeq(node) ==
  IF isBooleanNode(node)
  THEN LET RECURSIVE Cat(_)
           Cat(i) == IF i > Len(node.children) THEN <<>>
                     ELSE NodeIdSeq(node.children[i]) \o Cat(i + 1)
       IN <<node.id>> \o Cat(1)
  ELSE <<node.id>>

TreeIdSeq(r) == IF r = null THEN <<>> ELSE NodeIdSeq(r)

TreeIds(r) == {TreeIdSeq(r)[i] : i \in 1..Len(TreeIdSeq(r))}

RECURSIVE Groups(_)
\* all BooleanNodes of a subtree, as a sequence in pre-order
Groups(node) ==
  IF isBooleanNode(node)
  THEN LET RECURSIVE Cat(_)
           Cat(i) == IF i > Len(node.children) THEN <<>>
                     ELSE Groups(node.children[i]) \o Cat(i + 1)
       IN <<node>> \o Cat(1)
  ELSE <<>>

TreeGroups(r) == IF r = null THEN <<>> ELSE Groups(r)

\* ------------------------------------------------------------------- state
VARIABLES
  \* FilterStateService
  filterTree,   \* filterTreeSubject.value : [root, id]
  nextId,       \* the next value generateId returns
  prevTree,     \* filterTreeSubject.value before the last call
  lastCall,     \* the last call made on the service, with its arguments
  \* KibanaFilterBarComponent
  filters,      \* filterForm.filters.value : the rows of the form
  previewText,  \* the pieces whose concatenation is previewText
  previewHtml,  \* the pieces whose concatenation is previewHtml
  showQueryDSL,
  queryDSL,     \* the document that the string queryDSL serialises
  raised,       \* the error raised by the last call on the component
  emitted,      \* the FilterGroup that the last call sent to filtersApplied
  \* DashboardFilterWrapperComponent
  activeFilters,
  \* a private function of the service applied on its own
  arg,          \* the node handed to the function
  ret,          \* what it returned
  \* the service's objects, held by reference
  heap,         \* the live objects, by address
  subject,      \* the reference held by filterTreeSubject
  held,         \* a reference that a caller got from getFilterTree
  snapshot      \* the value of the held tree when the caller got it

serviceVars == <<filterTree, nextId, prevTree, lastCall>>
formVars ==
  <<filters, previewText, previewHtml, showQueryDSL, queryDSL, raised, emitted>>
callVars == <<arg, ret>>
heapVars == <<heap, subject, held, snapshot>>
wrapperVars == <<activeFilters>>

vars == <<serviceVars, formVars, callVars, heapVars, wrapperVars>>

\* ------------------------------------------------------------- addFilter
\* The BooleanNode that replaces a FilterCondition found as the parent.
wrapCondition(id, operator, node, newFilter) ==
  [id |-> id, operator |-> operator, children |-> <<node, newFilter>>]

\* A slip in the different-operator branch: the parent is extended in place
\* instead of being wrapped.
wrapBooleanNode_Appends(id, operator, node, newFilter) ==
  [node EXCEPT !.children = Append(@, newFilter)]

\* The BooleanNode that replaces a BooleanNode found as the parent when its
\* operator differs from the requested one.
wrapBooleanNode(id, operator, node, newFilter) ==
  [id |-> id, operator |-> operator, children |-> <<node, newFilter>>]

\* The BooleanNode found as the parent with the new filter appended, when its
\* operator is the requested one.
appendToBooleanNode(node, newFilter) ==
  [node EXCEPT !.children = Append(@, newFilter)]

RECURSIVE addFilterRecursive(_, _, _, _, _)
\* Returns [node, next]: the rebuilt node and the id counter after the
\* generateId calls made while rebuilding it.
addFilterRecursive(node, parentNodeId, operator, newFilter, next) ==
  IF node.id = parentNodeId /\ isFilterCondition(node)
  THEN [node |-> wrapCondition(next, operator, node, newFilter),
        next |-> next + 1]
  ELSE IF node.id = parentNodeId /\ isBooleanNode(node)
  THEN IF node.operator = operator
       THEN [node |-> appendToBooleanNode(node, newFilter), next |-> next]
       ELSE [node |-> wrapBooleanNode(next, operator, node, newFilter),
             next |-> next + 1]
  ELSE IF isBooleanNode(node)
  THEN LET RECURSIVE Map(_, _, _)
           \* node.children.map(child => addFilterRecursive(child, ...))
           Map(i, acc, n) ==
             IF i > Len(node.children) THEN [children |-> acc, next |-> n]
             ELSE LET r == addFilterRecursive(node.children[i], parentNodeId,
                                              operator, newFilter, n)
                  IN Map(i + 1, Append(acc, r.node), r.next)
           m == Map(1, <<>>, next)
       IN [node |-> [node EXCEPT !.children = m.children], next |-> m.next]
  ELSE [node |-> node, next |-> next]

\* A slip in initializeWithFilter: the first condition is put in a group.
initializeWithFilter_Wrapped(filter, next) ==
  [tree |-> [root |-> [id |-> next + 1, operator |-> "AND",
                       children |-> <<NewCondition(next, filter)>>],
             id |-> next + 2],
   next |-> next + 3]

\* initializeWithFilter: the condition's id is generated before the tree's.
initializeWithFilter(filter, next) ==
  [tree |-> [root |-> NewCondition(next, filter), id |-> next + 1],
   next |-> next + 2]

\* addFilter as a function of the current tree and the id counter.
addFilterResult(tree, parentNodeId, operator, filter, next) ==
  IF tree.root = null
  THEN initializeWithFilter(filter, next)
  ELSE LET newCondition == NewCondition(next, filter)
           r == addFilterRecursive(tree.root, parentNodeId, operator,
                                   newCondition, next + 1)
       IN [tree |-> [tree EXCEPT !.root = r.node], next |-> r.next]

addFilter(parentNodeId, operator, filter) ==
  LET r == addFilterResult(filterTree, parentNodeId, operator, filter, nextId)
  IN /\ r.next <= MaxId + 1
     /\ filterTree' = r.tree
     /\ nextId' = r.next
     /\ prevTree' = filterTree
     /\ lastCall' = [op |-> "addFilter", nodeId |-> parentNodeId,
                     operator |-> operator]
     /\ UNCHANGED <<formVars, callVars, heapVars, wrapperVars>>

\* ----------------------------------------------------------- modifyFilter
\* The JavaScript null passed as modifyFilter's operator argument.
nullOperator == "null"

RECURSIVE modifyFilterRecursive_AnyCondition(_, _, _, _)
\* A slip in modifyFilterRecursive: the id test is missing on conditions.
modifyFilterRecursive_AnyCondition(node, nodeId, operator, updates) ==
  IF isFilterCondition(node)
  THEN Spread(node, updates)
  ELSE IF node.id = nodeId /\ isBooleanNode(node) /\ operator # nullOperator
  THEN [node EXCEPT !.operator = operator]
  ELSE IF isBooleanNode(node)
  THEN [node EXCEPT !.children =
          [i \in 1..Len(node.children) |->
             modifyFilterRecursive_AnyCondition(node.children[i], nodeId,
                                                operator, updates)]]
  ELSE node

RECURSIVE modifyFilterRecursive(_, _, _, _)
modifyFilterRecursive(node, nodeId, operator, updates) ==
  IF node.id = nodeId /\ isFilterCondition(node)
  THEN Spread(node, updates)
  ELSE IF node.id = nodeId /\ isBooleanNode(node) /\ operator # nullOperator
  THEN [node EXCEPT !.operator = operator]
  ELSE IF isBooleanNode(node)
  THEN [node EXCEPT !.children =
          [i \in 1..Len(node.children) |->
             modifyFilterRecursive(node.children[i], nodeId, operator, updates)]]
  ELSE node

modifyFilterResult(tree, nodeId, operator, updates) ==
  IF tree.root = null
  THEN tree
  ELSE [tree EXCEPT !.root =
          modifyFilterRecursive(tree.root, nodeId, operator, updates)]

modifyFilter(nodeId, operator, updates) ==
  /\ filterTree' = modifyFilterResult(filterTree, nodeId, operator, updates)
  /\ nextId' = nextId
  /\ prevTree' = filterTree
  /\ lastCall' = [op |-> "modifyFilter", nodeId |-> nodeId]
  /\ UNCHANGED <<formVars, callVars, heapVars, wrapperVars>>

\* ----------------------------------------------------------- removeFilter
\* A slip in the rebuilding of children: the nulls are not filtered out.
NonNull_KeepsAll(s) == s

\* .filter(child => child !== null)
RECURSIVE NonNull(_)
NonNull(s) ==
  IF s = <<>> THEN <<>>
  ELSE IF Head(s) = null THEN NonNull(Tail(s))
  ELSE <<Head(s)>> \o NonNull(Tail(s))

\* What removeFilterRecursive returns for a BooleanNode once its children
\* have been rebuilt and the nulls filtered out.
removedGroup(node, filteredChildren) ==
  IF Len(filteredChildren) = 0 THEN null
  ELSE IF Len(filteredChildren) = 1 THEN filteredChildren[1]
  ELSE [node EXCEPT !.children = filteredChildren]

RECURSIVE removeFilterRecursive(_, _)
removeFilterRecursive(node, nodeId) ==
  IF isBooleanNode(node)
  THEN removedGroup(node,
         NonNull([i \in 1..Len(node.children) |->
                    removeFilterRecursive(node.children[i], nodeId)]))
  ELSE IF node.id = nodeId THEN null
  ELSE node

\* A slip in normalizeNode: the sole surviving child is not hoisted.
normalizedGroup_KeepsSingle(node, normalizedChildren) ==
  IF Len(normalizedChildren) = 0 THEN null
  ELSE [node EXCEPT !.children = normalizedChildren]

\* What normalizeNode returns for a BooleanNode once its children have been
\* normalized and the nulls filtered out.
normalizedGroup(node, normalizedChildren) ==
  IF Len(normalizedChildren) = 0 THEN null
  ELSE IF Len(normalizedChildren) = 1 THEN normalizedChildren[1]
  ELSE [node EXCEPT !.children = normalizedChildren]

RECURSIVE normalizeNode(_)
normalizeNode(node) ==
  IF node = null THEN null
  ELSE IF isBooleanNode(node)
  THEN normalizedGroup(node,
         NonNull([i \in 1..Len(node.children) |->
                    normalizeNode(node.children[i])]))
  ELSE node

RECURSIVE removeWithoutCollapse(_, _)
removeWithoutCollapse(node, nodeId) ==
  IF isBooleanNode(node)
  THEN [node EXCEPT !.children =
          NonNull([i \in 1..Len(node.children) |->
                     removeWithoutCollapse(node.children[i], nodeId)])]
  ELSE IF node.id = nodeId THEN null
  ELSE node

\* A slip in removeFilter: the condition is taken out of its parent and the
\* parent is left as it is, however few children remain.
removeFilterResult_NoCollapse(tree, nodeId, next) ==
  IF tree.root = null
  THEN [tree |-> tree, next |-> next]
  ELSE IF tree.root.id = nodeId
  THEN [tree |-> [root |-> null, id |-> next], next |-> next + 1]
  ELSE [tree |-> [tree EXCEPT !.root = removeWithoutCollapse(tree.root, nodeId)],
        next |-> next]

\* removeFilter as a function of the current tree and the id counter.
removeFilterResult(tree, nodeId, next) ==
  IF tree.root = null
  THEN [tree |-> tree, next |-> next]
  ELSE IF tree.root.id = nodeId
  THEN [tree |-> [root |-> null, id |-> next], next |-> next + 1]
  ELSE [tree |-> [tree EXCEPT !.root =
                    normalizeNode(removeFilterRecursive(tree.root, nodeId))],
        next |-> next]

removeFilter(nodeId) ==
  LET r == removeFilterResult(filterTree, nodeId, nextId)
  IN /\ r.next <= MaxId + 1
     /\ filterTree' = r.tree
     /\ nextId' = r.next
     /\ prevTree' = filterTree
     /\ lastCall' = [op |-> "removeFilter", nodeId |-> nodeId]
     /\ UNCHANGED <<formVars, callVars, heapVars, wrapperVars>>

\* --------------------------------------------------------- toggleOperator
RECURSIVE toggleOperatorRecursive(_, _)
toggleOperatorRecursive(node, nodeId) ==
  IF isBooleanNode(node) /\ node.id = nodeId
  THEN [node EXCEPT !.operator = IF @ = "AND" THEN "OR" ELSE "AND"]
  ELSE IF isBooleanNode(node)
  THEN [node EXCEPT !.children =
          [i \in 1..Len(node.children) |->
             toggleOperatorRecursive(node.children[i], nodeId)]]
  ELSE node

toggleOperatorResult(tree, nodeId) ==
  IF tree.root = null
  THEN tree
  ELSE [tree EXCEPT !.root = toggleOperatorRecursive(tree.root, nodeId)]

toggleOperator(nodeId) ==
  /\ filterTree' = toggleOperatorResult(filterTree, nodeId)
  /\ nextId' = nextId
  /\ prevTree' = filterTree
  /\ lastCall' = [op |-> "toggleOperator", nodeId |-> nodeId]
  /\ UNCHANGED <<formVars, callVars, heapVars, wrapperVars>>

\* ------------------------------------------- the trees as objects in memory
\* The editing functions above work on values.  Here the same functions work
\* on objects held by reference, so that a write to an object shows in every
\* tree that holds it.  An object literal, an array literal, a spread, map and
\* filter each make a new object; nothing else does.  A FilterTree is
\* [root, id], a BooleanNode holds a reference to its children array, an array
\* is [items].
Ref(address) == [ref |-> address]

\* the lowest address at which no object lives
FreeAddress(h) ==
  CHOOSE a \in 1..(Cardinality(DOMAIN h) + 1) :
    /\ a \notin DOMAIN h
    /\ \A b \in 1..(a - 1) : b \in DOMAIN h

\* Returns [heap, ref]: the heap with the new object, and its reference.
New(h, object) ==
  [heap |-> h @@ (FreeAddress(h) :> object), ref |-> Ref(FreeAddress(h))]

\* A slip: the new child is pushed onto the children array that the node has.
spreadAppend_Push(h, array, item) ==
  [heap |-> [h EXCEPT ![array.ref].items = Append(@, item)], ref |-> array]

\* [...node.children, newFilter]
spreadAppend(h, array, item) ==
  New(h, [items |-> Append(h[array.ref].items, item)])

\* the value of the node behind a reference
RECURSIVE NodeValue(_, _)
NodeValue(h, node) ==
  IF node = null THEN null
  ELSE IF isBooleanNode(h[node.ref])
  THEN [h[node.ref] EXCEPT !.children =
          [i \in 1..Len(h[h[node.ref].children.ref].items) |->
             NodeValue(h, h[h[node.ref].children.ref].items[i])]]
  ELSE h[node.ref]

\* the value of the FilterTree behind a reference
TreeValue(h, tree) ==
  [root |-> NodeValue(h, h[tree.ref].root), id |-> h[tree.ref].id]

\* the addresses of the objects that a node is made of
RECURSIVE NodeCells(_, _)
NodeCells(h, node) ==
  IF node = null THEN {}
  ELSE IF isBooleanNode(h[node.ref])
  THEN {node.ref, h[node.ref].children.ref}
         \cup UNION {NodeCells(h, h[h[node.ref].children.ref].items[i]) :
                       i \in 1..Len(h[h[node.ref].children.ref].items)}
  ELSE {node.ref}

TreeCells(h, tree) == {tree.ref} \cup NodeCells(h, h[tree.ref].root)

\* no reference is held
NotHeld == [none |-> TRUE]

\* the addresses of the objects that a node is made of, in the order in which
\* a walk from the node meets them
RECURSIVE NodeCellSeq(_, _)
NodeCellSeq(h, node) ==
  IF node = null THEN <<>>
  ELSE IF isBooleanNode(h[node.ref])
  THEN LET RECURSIVE Cat(_)
           Cat(i) == IF i > Len(h[h[node.ref].children.ref].items) THEN <<>>
                     ELSE NodeCellSeq(h, h[h[node.ref].children.ref].items[i])
                            \o Cat(i + 1)
       IN <<node.ref, h[node.ref].children.ref>> \o Cat(1)
  ELSE <<node.ref>>

TreeCellSeq(h, tree) ==
  IF tree = NotHeld THEN <<>>
  ELSE <<tree.ref>> \o NodeCellSeq(h, h[tree.ref].root)

\* cells without the repetitions: what each address keeps is its first place
RECURSIVE Distinct(_, _)
Distinct(cells, seen) ==
  IF cells = <<>> THEN <<>>
  ELSE IF Head(cells) \in seen THEN Distinct(Tail(cells), seen)
  ELSE <<Head(cells)>> \o Distinct(Tail(cells), seen \cup {Head(cells)})

\* The objects that no held tree reaches are reclaimed and the others are
\* moved together: the object at cells[n] goes to address n.
MovedAddress(cells, address) ==
  CHOOSE n \in 1..Len(cells) : cells[n] = address

MovedRef(cells, r) ==
  IF r = null \/ r = NotHeld THEN r ELSE Ref(MovedAddress(cells, r.ref))

MovedObject(cells, object) ==
  IF "root" \in DOMAIN object
  THEN [object EXCEPT !.root = MovedRef(cells, object.root)]
  ELSE IF "items" \in DOMAIN object
  THEN [items |-> [i \in 1..Len(object.items) |->
                     MovedRef(cells, object.items[i])]]
  ELSE IF isBooleanNode(object)
  THEN [object EXCEPT !.children = MovedRef(cells, object.children)]
  ELSE object

Live(h, cells) == [n \in 1..Len(cells) |-> MovedObject(cells, h[cells[n]])]

RECURSIVE addFilterRecursiveIn(_, _, _, _, _, _)
\* Returns [heap, ref, next].
addFilterRecursiveIn(h, node, parentNodeId, operator, newFilter, next) ==
  LET object == h[node.ref]
  IN IF object.id = parentNodeId
          /\ \/ isFilterCondition(object)
             \/ isBooleanNode(object) /\ object.operator # operator
     THEN LET children == New(h, [items |-> <<node, newFilter>>])
              group == New(children.heap,
                           [id |-> next, operator |-> operator,
                            children |-> children.ref])
          IN [heap |-> group.heap, ref |-> group.ref, next |-> next + 1]
     ELSE IF object.id = parentNodeId /\ isBooleanNode(object)
     THEN LET children == spreadAppend(h, object.children, newFilter)
              group == New(children.heap,
                           [object EXCEPT !.children = children.ref])
          IN [heap |-> group.heap, ref |-> group.ref, next |-> next]
     ELSE IF isBooleanNode(object)
     THEN LET RECURSIVE Map(_, _, _, _)
              Map(i, acc, hh, n) ==
                IF i > Len(h[object.children.ref].items)
                THEN [heap |-> hh, items |-> acc, next |-> n]
                ELSE LET r == addFilterRecursiveIn(
                                hh, hh[object.children.ref].items[i],
                                parentNodeId, operator, newFilter, n)
                     IN Map(i + 1, Append(acc, r.ref), r.heap, r.next)
              m == Map(1, <<>>, h, next)
              children == New(m.heap, [items |-> m.items])
              group == New(children.heap,
                           [object EXCEPT !.children = children.ref])
          IN [heap |-> group.heap, ref |-> group.ref, next |-> m.next]
     ELSE [heap |-> h, ref |-> node, next |-> next]

\* Returns [heap, tree, next]: the heap after the call, the reference handed
\* to setFilterTree and the id counter.
addFilterIn(h, parentNodeId, operator, filter, next) ==
  IF h[subject.ref].root = null
  THEN LET condition == New(h, NewCondition(next, filter))
           tree == New(condition.heap, [root |-> condition.ref, id |-> next + 1])
       IN [heap |-> tree.heap, tree |-> tree.ref, next |-> next + 2]
  ELSE LET newCondition == New(h, NewCondition(next, filter))
           r == addFilterRecursiveIn(newCondition.heap, h[subject.ref].root,
                                     parentNodeId, operator, newCondition.ref,
                                     next + 1)
           tree == New(r.heap, [h[subject.ref] EXCEPT !.root = r.ref])
       IN [heap |-> tree.heap, tree |-> tree.ref, next |-> r.next]

RECURSIVE modifyFilterRecursiveIn(_, _, _, _, _)
\* Returns [heap, ref].
modifyFilterRecursiveIn(h, node, nodeId, operator, updates) ==
  LET object == h[node.ref]
  IN IF object.id = nodeId /\ isFilterCondition(object)
     THEN New(h, Spread(object, updates))
     ELSE IF object.id = nodeId /\ isBooleanNode(object)
               /\ operator # nullOperator
     THEN New(h, [object EXCEPT !.operator = operator])
     ELSE IF isBooleanNode(object)
     THEN LET RECURSIVE Map(_, _, _)
              Map(i, acc, hh) ==
                IF i > Len(h[object.children.ref].items)
                THEN [heap |-> hh, items |-> acc]
                ELSE LET r == modifyFilterRecursiveIn(
                                hh, hh[object.children.ref].items[i],
                                nodeId, operator, updates)
                     IN Map(i + 1, Append(acc, r.ref), r.heap)
              m == Map(1, <<>>, h)
              children == New(m.heap, [items |-> m.items])
          IN New(children.heap, [object EXCEPT !.children = children.ref])
     ELSE [heap |-> h, ref |-> node]

RECURSIVE removeFilterRecursiveIn(_, _, _)
\* Returns [heap, ref]; ref is null where the source returns null.
removeFilterRecursiveIn(h, node, nodeId) ==
  LET object == h[node.ref]
  IN IF isBooleanNode(object)
     THEN LET RECURSIVE Map(_, _, _)
              Map(i, acc, hh) ==
                IF i > Len(h[object.children.ref].items)
                THEN [heap |-> hh, items |-> acc]
                ELSE LET r == removeFilterRecursiveIn(
                                hh, hh[object.children.ref].items[i], nodeId)
                     IN Map(i + 1, Append(acc, r.ref), r.heap)
              m == Map(1, <<>>, h)
              mapped == New(m.heap, [items |-> m.items])
              filteredChildren ==
                New(mapped.heap, [items |-> NonNull(m.items)])
          IN IF Len(NonNull(m.items)) = 0
             THEN [heap |-> filteredChildren.heap, ref |-> null]
             ELSE IF Len(NonNull(m.items)) = 1
             THEN [heap |-> filteredChildren.heap, ref |-> NonNull(m.items)[1]]
             ELSE New(filteredChildren.heap,
                      [object EXCEPT !.children = filteredChildren.ref])
     ELSE IF object.id = nodeId THEN [heap |-> h, ref |-> null]
     ELSE [heap |-> h, ref |-> node]

RECURSIVE normalizeNodeIn(_, _)
\* Returns [heap, ref].
normalizeNodeIn(h, node) ==
  IF node = null THEN [heap |-> h, ref |-> null]
  ELSE LET object == h[node.ref]
       IN IF isBooleanNode(object)
          THEN LET RECURSIVE Map(_, _, _)
                   Map(i, acc, hh) ==
                     IF i > Len(h[object.children.ref].items)
                     THEN [heap |-> hh, items |-> acc]
                     ELSE LET r == normalizeNodeIn(
                                     hh, hh[object.children.ref].items[i])
                          IN Map(i + 1, Append(acc, r.ref), r.heap)
                   m == Map(1, <<>>, h)
                   mapped == New(m.heap, [items |-> m.items])
                   normalizedChildren ==
                     New(mapped.heap, [items |-> NonNull(m.items)])
               IN IF Len(NonNull(m.items)) = 0
                  THEN [heap |-> normalizedChildren.heap, ref |-> null]
                  ELSE IF Len(NonNull(m.items)) = 1
                  THEN [heap |-> normalizedChildren.heap,
                        ref |-> NonNull(m.items)[1]]
                  ELSE New(normalizedChildren.heap,
                           [object EXCEPT !.children = normalizedChildren.ref])
          ELSE [heap |-> h, ref |-> node]

RECURSIVE toggleOperatorRecursiveIn(_, _, _)
\* Returns [heap, ref].
toggleOperatorRecursiveIn(h, node, nodeId) ==
  LET object == h[node.ref]
  IN IF isBooleanNode(object) /\ object.id = nodeId
     THEN New(h, [object EXCEPT
                    !.operator = IF @ = "AND" THEN "OR" ELSE "AND"])
     ELSE IF isBooleanNode(object)
     THEN LET RECURSIVE Map(_, _, _)
              Map(i, acc, hh) ==
                IF i > Len(h[object.children.ref].items)
                THEN [heap |-> hh, items |-> acc]
                ELSE LET r == toggleOperatorRecursiveIn(
                                hh, hh[object.children.ref].items[i], nodeId)
                     IN Map(i + 1, Append(acc, r.ref), r.heap)
              m == Map(1, <<>>, h)
              children == New(m.heap, [items |-> m.items])
          IN New(children.heap, [object EXCEPT !.children = children.ref])
     ELSE [heap |-> h, ref |-> node]

\* setFilterTree(tree) at the end of a call that worked in heap h
setFilterTreeIn(h, tree) ==
  LET cells == Distinct(TreeCellSeq(h, held) \o TreeCellSeq(h, tree), {})
  IN /\ heap' = Live(h, cells)
     /\ subject' = MovedRef(cells, tree)
     /\ held' = MovedRef(cells, held)
     /\ filterTree' = TreeValue(h, tree)

\* With a caller's reference in the state, no call is taken that would issue
\* an id above MaxHeldId.
MaxHeldId == 6

\* a caller takes getFilterTree() and keeps what it returns
getFilterTreeHeld ==
  /\ held # subject
  /\ heap' = Live(heap, Distinct(TreeCellSeq(heap, subject), {}))
  /\ subject' = Ref(1)
  /\ held' = Ref(1)
  /\ snapshot' = TreeValue(heap, subject)
  /\ UNCHANGED <<serviceVars, formVars, callVars, wrapperVars>>

addFilterHeld(parentNodeId, operator, filter) ==
  LET r == addFilterIn(heap, parentNodeId, operator, filter, nextId)
  IN /\ r.next <= MaxHeldId + 1
     /\ setFilterTreeIn(r.heap, r.tree)
     /\ nextId' = r.next
     /\ UNCHANGED <<prevTree, lastCall, snapshot, formVars, callVars,
               wrapperVars>>

modifyFilterHeld(nodeId, operator, updates) ==
  /\ IF heap[subject.ref].root = null
     THEN UNCHANGED <<heap, subject, held, filterTree>>
     ELSE LET r == modifyFilterRecursiveIn(heap, heap[subject.ref].root,
                                           nodeId, operator, updates)
              tree == New(r.heap, [heap[subject.ref] EXCEPT !.root = r.ref])
          IN setFilterTreeIn(tree.heap, tree.ref)
  /\ UNCHANGED <<nextId, prevTree, lastCall, snapshot, formVars, callVars,
               wrapperVars>>

removeFilterHeld(nodeId) ==
  /\ IF heap[subject.ref].root = null
     THEN UNCHANGED <<heap, subject, held, filterTree, nextId>>
     ELSE IF heap[heap[subject.ref].root.ref].id = nodeId
     THEN LET tree == New(heap, [root |-> null, id |-> nextId])
          IN /\ nextId <= MaxHeldId
             /\ setFilterTreeIn(tree.heap, tree.ref)
             /\ nextId' = nextId + 1
     ELSE LET newRoot == removeFilterRecursiveIn(heap, heap[subject.ref].root,
                                                 nodeId)
              normalizedRoot == normalizeNodeIn(newRoot.heap, newRoot.ref)
              tree == New(normalizedRoot.heap,
                          [heap[subject.ref] EXCEPT !.root = normalizedRoot.ref])
          IN /\ setFilterTreeIn(tree.heap, tree.ref)
             /\ nextId' = nextId
  /\ UNCHANGED <<prevTree, lastCall, snapshot, formVars, callVars,
               wrapperVars>>

toggleOperatorHeld(nodeId) ==
  /\ IF heap[subject.ref].root = null
     THEN UNCHANGED <<heap, subject, held, filterTree>>
     ELSE LET r == toggleOperatorRecursiveIn(heap, heap[subject.ref].root,
                                             nodeId)
              tree == New(r.heap, [heap[subject.ref] EXCEPT !.root = r.ref])
          IN setFilterTreeIn(tree.heap, tree.ref)
  /\ UNCHANGED <<nextId, prevTree, lastCall, snapshot, formVars, callVars,
               wrapperVars>>

\* ------------------------------------------------ findNodeById, getNodePath
RECURSIVE findNodeByIdRecursive(_, _)
findNodeByIdRecursive(node, nodeId) ==
  IF node.id = nodeId THEN node
  ELSE IF isBooleanNode(node)
  THEN LET RECURSIVE For(_)
           \* for (const child of node.children) { ... if (found) return found }
           For(i) ==
             IF i > Len(node.children) THEN null
             ELSE LET found == findNodeByIdRecursive(node.children[i], nodeId)
                  IN IF found # null THEN found ELSE For(i + 1)
       IN For(1)
  ELSE null

findNodeById(tree, nodeId) ==
  IF tree.root = null THEN null
  ELSE findNodeByIdRecursive(tree.root, nodeId)

\* A slip in getNodePathRecursive: the group's id is left on the path when
\* none of its children holds the node.
pathPop_Forgotten(path) == path

\* path.pop()
pathPop(path) == SubSeq(path, 1, Len(path) - 1)

RECURSIVE getNodePathRecursive(_, _, _)
\* Returns [found, path]: the boolean returned and the array as the call
\* leaves it.
getNodePathRecursive(node, nodeId, path) ==
  IF node.id = nodeId
  THEN [found |-> TRUE, path |-> Append(path, node.id)]
  ELSE IF isBooleanNode(node)
  THEN LET RECURSIVE For(_, _)
           For(i, pth) ==
             IF i > Len(node.children)
             THEN [found |-> FALSE, path |-> pathPop(pth)]
             ELSE LET r == getNodePathRecursive(node.children[i], nodeId, pth)
                  IN IF r.found THEN r ELSE For(i + 1, r.path)
       IN For(1, Append(path, node.id))
  ELSE [found |-> FALSE, path |-> path]

getNodePath(tree, nodeId) ==
  IF tree.root = null THEN <<>>
  ELSE getNodePathRecursive(tree.root, nodeId, <<>>).path

\* --------------------------------------------------------- JavaScript values
\* A value placed in a clause is a string or a number.
Str(s) == [string |-> s]
Num(n) == [number |-> n]

\* The strings that match /^-?\d+(\.\d+)?$/ once trimmed, with the number
\* parseFloat gives for each.
ParseFloat == ("500" :> 500) @@ (" 42 " :> 42) @@ ("-7" :> (0 - 7))

\* The field names that end with ".keyword".
KeywordFields == {"host.keyword", "verb.keyword", "timestamp.keyword"}

\* field.endsWith('.keyword')
isKeywordField(field) == field \in KeywordFields

\* value.split(',').map(v => v.trim()) for the strings that hold a comma or
\* blanks around the text; any other string gives the list of itself.
SplitTrim == ("GET,POST" :> <<"GET", "POST">>) @@ ("GET, POST" :> <<"GET", "POST">>)
             @@ (" 42 " :> <<"42">>)

splitValues(value) ==
  IF value \in DOMAIN SplitTrim THEN SplitTrim[value] ELSE <<value>>

\* {} 
EmptyObject == <<>>

\* { match_all: {} }
MatchAll == [match_all |-> EmptyObject]

\* ------------------------------------------------- buildSingleFilterQuery
isNumeric(val) == val # "" /\ val \in DOMAIN ParseFloat

convertValue(isKeyword, val) ==
  IF isKeyword THEN Str(val)
  ELSE IF isNumeric(val) THEN Num(ParseFloat[val])
  ELSE Str(val)

\* rangeQuery of the 'range' case: the max bound is assigned after the min
\* bound and overwrites it when both use the same key.
rangeQueryOf(isKeyword, filter) ==
  (IF filter.maxValue # ""
   THEN OrDefault(filter, "maxOperator", "lt") :> convertValue(isKeyword, filter.maxValue)
   ELSE EmptyObject)
  @@
  (IF filter.minValue # ""
   THEN OrDefault(filter, "minOperator", "gt") :> convertValue(isKeyword, filter.minValue)
   ELSE EmptyObject)

mustNot(clause) == [bool |-> [must_not |-> <<clause>>]]

\* A slip in buildSingleFilterQuery: a condition without field or operator
\* compiles to match_all.
buildSingleFilterQuery_MatchAll(filter) ==
  IF filter.field = "" \/ filter.operator = "" THEN MatchAll
  ELSE [exists |-> [field |-> filter.field]]

buildSingleFilterQuery(filter) ==
  IF filter.field = "" \/ filter.operator = "" THEN null
  ELSE LET operator == filter.operator
           field == filter.field
           value == filter.value
           isKeyword == isKeywordField(field)
       IN CASE operator = "is" ->
                 IF isKeyword \/ isNumeric(value)
                 THEN [term |-> (field :> convertValue(isKeyword, value))]
                 ELSE [match |-> (field :> Str(value))]
            [] operator = "is_not" ->
                 IF isKeyword \/ isNumeric(value)
                 THEN mustNot([term |-> (field :> convertValue(isKeyword, value))])
                 ELSE mustNot([match |-> (field :> Str(value))])
            [] operator = "is_one_of" ->
                 [terms |-> (field :> splitValues(value))]
            [] operator = "is_not_one_of" ->
                 mustNot([terms |-> (field :> splitValues(value))])
            [] operator = "exists" ->
                 [exists |-> [field |-> field]]
            [] operator = "does_not_exist" ->
                 mustNot([exists |-> [field |-> field]])
            [] operator = "range" ->
                 IF DOMAIN rangeQueryOf(isKeyword, filter) # {}
                 THEN [range |-> (field :> rangeQueryOf(isKeyword, filter))]
                 ELSE null
            [] operator = "prefix" ->
                 IF value = "" THEN null
                 ELSE IF isKeyword THEN [prefix |-> (field :> Str(value))]
                 ELSE [wildcard |-> (field :> [value |-> Str(value \o "*"),
                                               case_insensitive |-> TRUE])]
            [] operator = "wildcard" ->
                 IF value = "" THEN null
                 ELSE [wildcard |-> (field :> [value |-> Str(value),
                                               case_insensitive |-> TRUE])]
            [] operator = "query_string" ->
                 IF value = "" THEN null
                 ELSE [query_string |-> [default_field |-> field,
                                         query |-> Str(value)]]
            [] OTHER -> null

\* --------------------------------------------------------- generateQueryDSL
\* A slip in isEmptyQuery: only a missing query counts as empty.
isEmptyQuery_NullOnly(query) == query = null

\* !query || (query.match_all && Object.keys(query).length === 1)
isEmptyQuery(query) ==
  \/ query = null
  \/ ("match_all" \in DOMAIN query /\ Cardinality(DOMAIN query) = 1)

\* What generateQueryDSLRecursive returns for a BooleanNode once its children
\* have been compiled and the empty results filtered out.
groupQuery(operator, childQueries) ==
  IF Len(childQueries) = 0 THEN MatchAll
  ELSE IF Len(childQueries) = 1 THEN childQueries[1]
  ELSE IF operator = "OR"
  THEN [bool |-> [should |-> childQueries, minimum_should_match |-> 1]]
  ELSE [bool |-> [must |-> childQueries]]

RECURSIVE generateQueryDSLRecursive(_)
generateQueryDSLRecursive(node) ==
  IF isFilterCondition(node) THEN buildSingleFilterQuery(node)
  ELSE IF isBooleanNode(node)
  THEN groupQuery(node.operator,
         SelectSeq([i \in 1..Len(node.children) |->
                      generateQueryDSLRecursive(node.children[i])],
                   LAMBDA query : query # null /\ ~isEmptyQuery(query)))
  ELSE MatchAll

generateQueryDSL(tree) ==
  IF tree.root = null THEN MatchAll
  ELSE generateQueryDSLRecursive(tree.root)

\* ---------------------------------------------------------- generatePreview
\* A string that the source builds from a template is held as the sequence of
\* its pieces; `${field}: ${value}` is one piece.
isNegatedFilter(filter) ==
  filter.operator \in {"is_not", "does_not_exist", "is_not_one_of"}

\* `(${preview})`
inParentheses(wrap, preview) ==
  IF wrap THEN <<"(">> \o preview \o <<")">> ELSE preview

RECURSIVE generatePreviewRecursive(_, _)
\* parentOperator is nullOperator where the source leaves it undefined
generatePreviewRecursive(node, parentOperator) ==
  IF isFilterCondition(node)
  THEN LET filterText == OrDefault(node, "field", "-") \o ": "
                           \o OrDefault(node, "value", "-")
       IN IF isNegatedFilter(node) THEN <<"NOT ", filterText>>
          ELSE <<filterText>>
  ELSE IF isBooleanNode(node)
  THEN LET childPreview(index) ==
             inParentheses(
               isBooleanNode(node.children[index])
                 /\ node.children[index].operator # node.operator,
               generatePreviewRecursive(node.children[index], node.operator))
           RECURSIVE joined(_)
           \* childrenPreviews.join(` ${node.operator} `)
           joined(index) ==
             IF index > Len(node.children) THEN <<>>
             ELSE (IF index > 1 THEN <<" ", node.operator, " ">> ELSE <<>>)
                    \o childPreview(index) \o joined(index + 1)
       IN inParentheses(parentOperator # nullOperator
                          /\ parentOperator # node.operator,
                        joined(1))
  ELSE <<>>

generatePreview(tree) ==
  IF tree.root = null THEN <<>>
  ELSE generatePreviewRecursive(tree.root, nullOperator)

\* ================================================= KibanaFilterBarComponent
\* queryDSL: string = ''
NoDocument == [empty |-> TRUE]

\* no error was raised
NoError == "none"

\* filtersApplied was sent nothing
NotEmitted == [nothing |-> TRUE]

\* The value of one FormGroup of the FormArray, as addFilter and
\* addFilterWithLogic create it.
BlankRow(logic) ==
  [ field       |-> "",
    operator    |-> "",
    value       |-> "",
    logic       |-> logic,
    minOperator |-> "gt",
    minValue    |-> "",
    maxOperator |-> "lt",
    maxValue    |-> "" ]

\* operatorMap[operator] || operator
operatorMap ==
  [ is |-> "is", isNot |-> "is_not", is_not |-> "is_not",
    terms |-> "is_one_of", is_one_of |-> "is_one_of",
    notTerms |-> "is_not_one_of", is_not_one_of |-> "is_not_one_of",
    exists |-> "exists", notExists |-> "does_not_exist",
    does_not_exist |-> "does_not_exist", range |-> "range",
    prefix |-> "prefix", wildcard |-> "wildcard",
    query_string |-> "query_string", queryString |-> "query_string" ]

normalizeOperator(operator) ==
  IF operator \in DOMAIN operatorMap THEN operatorMap[operator] ELSE operator

\* The field names that are '@timestamp' or hold 'date' or 'time' in any case.
DateFields == {"@timestamp", "timestamp", "timestamp.keyword", "eventDate"}

isDateField(field) == field \in DateFields

isNumericValue(val) == val # "" /\ val \in DOMAIN ParseFloat

\* convertValue of generateQueryDSL's forEach callback
convertRowValue(isKeyword, val) ==
  IF isKeyword THEN Str(val)
  ELSE IF isNumericValue(val) THEN Num(ParseFloat[val])
  ELSE Str(val)

rowRangeQuery(isKeyword, filter) ==
  (IF filter.maxValue # ""
   THEN (IF filter.maxOperator # "" THEN filter.maxOperator ELSE "lt")
          :> convertRowValue(isKeyword, filter.maxValue)
   ELSE EmptyObject)
  @@
  (IF filter.minValue # ""
   THEN (IF filter.minOperator # "" THEN filter.minOperator ELSE "gt")
          :> convertRowValue(isKeyword, filter.minValue)
   ELSE EmptyObject)

\* The clause that generateQueryDSL's forEach callback builds for one row, or
\* null when the callback returns without pushing one.
rowQuery(filter) ==
  IF filter.field = "" \/ filter.operator = "" THEN null
  ELSE LET isKeyword == isKeywordField(filter.field)
           normalizedOperator == normalizeOperator(filter.operator)
           termLike == \/ isKeyword
                       \/ isDateField(filter.field)
                       \/ isNumericValue(filter.value)
       IN CASE normalizedOperator = "is" ->
                 IF termLike
                 THEN [term |-> (filter.field :>
                                   convertRowValue(isKeyword, filter.value))]
                 ELSE [match |-> (filter.field :> Str(filter.value))]
            [] normalizedOperator = "is_not" ->
                 IF termLike
                 THEN mustNot([term |-> (filter.field :>
                                   convertRowValue(isKeyword, filter.value))])
                 ELSE mustNot([match |-> (filter.field :> Str(filter.value))])
            [] normalizedOperator = "is_one_of" ->
                 [terms |-> (filter.field :> splitValues(filter.value))]
            [] normalizedOperator = "is_not_one_of" ->
                 mustNot([terms |-> (filter.field :> splitValues(filter.value))])
            [] normalizedOperator = "exists" ->
                 [exists |-> [field |-> filter.field]]
            [] normalizedOperator = "does_not_exist" ->
                 mustNot([exists |-> [field |-> filter.field]])
            [] normalizedOperator = "range" ->
                 IF DOMAIN rowRangeQuery(isKeyword, filter) # {}
                 THEN [range |-> (filter.field :>
                                    rowRangeQuery(isKeyword, filter))]
                 ELSE null
            [] normalizedOperator = "prefix" ->
                 IF filter.value = "" THEN null
                 ELSE IF isKeyword
                 THEN [prefix |-> (filter.field :> Str(filter.value))]
                 ELSE [wildcard |-> (filter.field :>
                                       [value |-> Str(filter.value \o "*"),
                                        case_insensitive |-> TRUE])]
            [] normalizedOperator = "wildcard" ->
                 IF filter.value = "" THEN null
                 ELSE [wildcard |-> (filter.field :>
                                       [value |-> Str(filter.value),
                                        case_insensitive |-> TRUE])]
            [] normalizedOperator = "query_string" ->
                 IF filter.value = "" THEN null
                 ELSE [query_string |-> [default_field |-> filter.field,
                                         query |-> Str(filter.value)]]
            [] OTHER -> null

\* filter.logic || 'AND'
logicOrAnd(logic) == IF logic # "" THEN logic ELSE "AND"

RECURSIVE rowQueries(_, _)
\* queries: one { query, logic, index } per row that yields a clause, from row
\* index on
rowQueries(filterArray, index) ==
  IF index > Len(filterArray) THEN <<>>
  ELSE LET query == rowQuery(filterArray[index])
           rest == rowQueries(filterArray, index + 1)
       IN IF query = null THEN rest
          ELSE <<[query |-> query,
                  logic |-> logicOrAnd(filterArray[index].logic),
                  index |-> index - 1]>> \o rest

\* operators: [null, queries[1].logic || 'AND', ...] (0-based in the source; here
\* element i + 1 is operators[i]); null is written nullOperator
operatorsOf(queries) ==
  [i \in 1..Len(queries) |->
     IF i = 1 THEN nullOperator ELSE logicOrAnd(queries[i].logic)]

\* [null] when there is no query
operatorsList(queries) ==
  IF Len(queries) = 0 THEN <<nullOperator>> ELSE operatorsOf(queries)

\* allOperators.length > 0 && allOperators.every(op => op === allOperators[0])
allSameOperators(operators) ==
  /\ Len(operators) > 1
  /\ \A i \in 2..Len(operators) : operators[i] = operators[2]

\* A slip in the fold: the clause is put behind the clauses of the group it
\* extends.
extendClauses_AtEnd(currentQuery, clauses) == Append(clauses, currentQuery)

\* [currentQuery, ...result.bool.should] and [currentQuery, ...result.bool.must]
extendClauses(currentQuery, clauses) == <<currentQuery>> \o clauses

shouldOf(clauses) == [bool |-> [should |-> clauses, minimum_should_match |-> 1]]

mustOf(clauses) == [bool |-> [must |-> clauses]]

\* result.bool && result.bool.should (and the same for must)
hasBool(result, key) ==
  "bool" \in DOMAIN result /\ key \in DOMAIN result.bool

\* One turn of the fold's loop: currentQuery combined with result.
foldStep(currentOp, needsNesting, currentQuery, result) ==
  IF currentOp = "OR"
  THEN IF needsNesting THEN shouldOf(<<currentQuery, result>>)
       ELSE IF hasBool(result, "should")
       THEN [result EXCEPT !.bool.should = extendClauses(currentQuery, @)]
       ELSE shouldOf(<<currentQuery, result>>)
  ELSE IF needsNesting THEN mustOf(<<currentQuery, result>>)
       ELSE IF hasBool(result, "must")
       THEN [result EXCEPT !.bool.must = extendClauses(currentQuery, @)]
       ELSE mustOf(<<currentQuery, result>>)

RECURSIVE foldQueries(_, _, _, _)
\* for (let i = queries.length - 2; i >= 0; i--): here i is the source's i + 1
foldQueries(queries, operators, i, result) ==
  IF i < 1 THEN result
  ELSE LET currentOp == operators[i + 1]
           needsNesting == IF i + 1 < Len(queries)
                           THEN operators[i + 2] # currentOp
                           ELSE FALSE
       IN foldQueries(queries, operators, i - 1,
                      foldStep(currentOp, needsNesting, queries[i].query, result))

\* generateQueryDSL as a function of the form's value: the document assigned
\* to queryDSL, or the error raised before anything is assigned.
generateFlatQueryDSL(filterArray) ==
  LET queries == rowQueries(filterArray, 1)
      operators == operatorsList(queries)
      queryList == [i \in 1..Len(queries) |-> queries[i].query]
  IN IF Len(queries) = 1
     THEN [raised |-> NoError, queryDSL |-> [query |-> queries[1].query]]
     ELSE IF allSameOperators(operators)
     THEN [raised |-> NoError,
           queryDSL |-> [query |-> IF operators[2] = "OR"
                                   THEN shouldOf(queryList)
                                   ELSE mustOf(queryList)]]
     ELSE IF Len(queries) = 0
     THEN \* queries[queries.length - 1] is undefined: reading .query throws
          [raised |-> "TypeError", queryDSL |-> NoDocument]
     ELSE [raised |-> NoError,
           queryDSL |-> [query |-> foldQueries(queries, operators,
                                               Len(queries) - 1,
                                               queries[Len(queries)].query)]]

\* ------------------------------------------------------------ the preview
\* A string that the source builds from a template is held as the sequence of
\* its pieces; the string is their concatenation.
RECURSIVE Text(_)
Text(pieces) == IF pieces = <<>> THEN "" ELSE Head(pieces) \o Text(Tail(pieces))

rangeOperatorLabels ==
  [gt |-> "Greater Than", gte |-> "Greater Than/Equal To",
   lt |-> "Less Than", lte |-> "Less Than/Equal To"]

getRangeOperatorLabel(operator) ==
  IF operator \in DOMAIN rangeOperatorLabels
  THEN rangeOperatorLabels[operator] ELSE operator

\* rangeParts.join(' and ')
rangeParts(filter) ==
  (IF filter.minValue # ""
   THEN <<getRangeOperatorLabel(IF filter.minOperator # ""
                                THEN filter.minOperator ELSE "gt")
          \o " " \o filter.minValue>>
   ELSE <<>>)
  \o
  (IF filter.maxValue # ""
   THEN <<getRangeOperatorLabel(IF filter.maxOperator # ""
                                THEN filter.maxOperator ELSE "lt")
          \o " " \o filter.maxValue>>
   ELSE <<>>)

\* filter.value || '-'
valueOrDash(filter) == IF filter.value # "" THEN filter.value ELSE "-"

\* filterText of updatePreview's forEach callback
filterTextOf(filter) ==
  LET normalizedOperator == normalizeOperator(filter.operator)
  IN CASE normalizedOperator \in {"exists", "does_not_exist"} ->
            filter.field \o ": exists"
       [] normalizedOperator = "range" ->
            IF Len(rangeParts(filter)) = 2
            THEN filter.field \o ": " \o rangeParts(filter)[1] \o " and "
                   \o rangeParts(filter)[2]
            ELSE IF Len(rangeParts(filter)) = 1
            THEN filter.field \o ": " \o rangeParts(filter)[1]
            ELSE filter.field \o ": -"
       [] normalizedOperator \in {"prefix", "wildcard", "query_string"} ->
            filter.field \o ": " \o normalizedOperator \o " \"" 
              \o valueOrDash(filter) \o "\""
       [] OTHER -> filter.field \o ": " \o valueOrDash(filter)

\* hasNot of updatePreview's forEach callback
hasNotOf(filter) ==
  normalizeOperator(filter.operator) \in {"does_not_exist", "is_not"}

RECURSIVE filterExpressionsOf(_, _)
\* filterExpressions: one { text, logic, hasNot } per row that has a field and
\* an operator, from row index on
filterExpressionsOf(filterArray, index) ==
  IF index > Len(filterArray) THEN <<>>
  ELSE LET filter == filterArray[index]
           rest == filterExpressionsOf(filterArray, index + 1)
       IN IF filter.field # "" /\ filter.operator # ""
          THEN <<[text |-> filterTextOf(filter),
                  logic |-> IF index > 1 THEN logicOrAnd(filter.logic) ELSE "",
                  hasNot |-> hasNotOf(filter)]>> \o rest
          ELSE rest

\* filter.hasNot ? `NOT ${filter.text}` : filter.text
exprText(filter) ==
  IF filter.hasNot THEN <<"NOT ", filter.text>> ELSE <<filter.text>>

\* operators of buildKibanaPreview (element i + 1 is operators[i])
previewOperators(exprs) ==
  [i \in 1..Len(exprs) |->
     IF i = 1 THEN nullOperator ELSE logicOrAnd(exprs[i].logic)]

RECURSIVE joinedPreview(_, _, _)
\* the allSame branch: parts.join(' ')
joinedPreview(exprs, operators, idx) ==
  IF idx > Len(exprs) THEN <<>>
  ELSE (IF idx > 1 THEN <<" ", operators[idx], " ">> ELSE <<>>)
       \o exprText(exprs[idx]) \o joinedPreview(exprs, operators, idx + 1)

\* A slip in the preview: the tail is never put in parentheses.
parenthesized_Never(needsParens, result) == result

\* needsParens ? `(${result})` : result
parenthesized(needsParens, result) ==
  IF needsParens THEN <<"(">> \o result \o <<")">> ELSE result

RECURSIVE nestedPreview(_, _, _, _)
\* for (let i = filters.length - 2; i >= 0; i--): here i is the source's i + 1
nestedPreview(exprs, operators, i, result) ==
  IF i < 1 THEN result
  ELSE LET currentOp == operators[i + 1]
           needsParens == IF i + 1 < Len(exprs)
                          THEN operators[i + 2] # currentOp
                          ELSE FALSE
       IN nestedPreview(exprs, operators, i - 1,
            exprText(exprs[i]) \o <<" ", currentOp, " ">>
              \o parenthesized(needsParens, result))

buildKibanaPreview(exprs) ==
  IF Len(exprs) = 0 THEN <<>>
  ELSE IF Len(exprs) = 1 THEN exprText(exprs[1])
  ELSE LET operators == previewOperators(exprs)
       IN IF \A i \in 2..Len(operators) : operators[i] = operators[2]
          THEN joinedPreview(exprs, operators, 1)
          ELSE nestedPreview(exprs, operators, Len(exprs) - 1,
                             exprText(exprs[Len(exprs)]))

\* The texts that hold a character that innerHTML escapes, with their escaped
\* form; escapeHtml returns any other text as it is.
HtmlEscaped == ("tags: <b>" :> "tags: &lt;b&gt;") @@ ("agent: a&b" :> "agent: a&amp;b")

escapeHtml(text) == IF text \in DOMAIN HtmlEscaped THEN HtmlEscaped[text] ELSE text

\* the markup of one filter expression
exprHtml(filter) ==
  IF filter.hasNot
  THEN <<"<span class=\"preview-not\">NOT</span> <span class=\"preview-field\">",
         escapeHtml(filter.text), "</span>">>
  ELSE <<"<span class=\"preview-field\">", escapeHtml(filter.text), "</span>">>

operatorHtml(operator) ==
  <<" <span class=\"preview-operator\">", operator, "</span> ">>

RECURSIVE joinedPreviewHtml(_, _, _)
\* the allSame branch of buildKibanaPreviewHtml: parts.join('')
joinedPreviewHtml(exprs, operators, idx) ==
  IF idx > Len(exprs) THEN <<>>
  ELSE (IF idx > 1 THEN operatorHtml(operators[idx]) ELSE <<>>)
       \o exprHtml(exprs[idx]) \o joinedPreviewHtml(exprs, operators, idx + 1)

\* needsParens ? `<span class="preview-group">(${result})</span>` : result
groupHtml(needsParens, result) ==
  IF needsParens
  THEN <<"<span class=\"preview-group\">", "(">> \o result \o <<")", "</span>">>
  ELSE result

RECURSIVE nestedPreviewHtmlLoop(_, _, _, _)
nestedPreviewHtmlLoop(exprs, operators, i, result) ==
  IF i < 1 THEN result
  ELSE LET currentOp == operators[i + 1]
           needsParens == IF i + 1 < Len(exprs)
                          THEN operators[i + 2] # currentOp
                          ELSE FALSE
       IN nestedPreviewHtmlLoop(exprs, operators, i - 1,
            exprHtml(exprs[i]) \o operatorHtml(currentOp)
              \o groupHtml(needsParens, result))

buildNestedPreviewHtml(exprs, operators) ==
  IF Len(exprs) = 1 THEN exprHtml(exprs[1])
  ELSE nestedPreviewHtmlLoop(exprs, operators, Len(exprs) - 1,
                             exprHtml(exprs[Len(exprs)]))

buildKibanaPreviewHtml(exprs) ==
  IF Len(exprs) = 0 THEN <<>>
  ELSE IF Len(exprs) = 1 THEN exprHtml(exprs[1])
  ELSE LET operators == previewOperators(exprs)
       IN IF \A i \in 2..Len(operators) : operators[i] = operators[2]
          THEN joinedPreviewHtml(exprs, operators, 1)
          ELSE buildNestedPreviewHtml(exprs, operators)

\* updatePreview as a function of the form's value: what it assigns to
\* previewText and previewHtml.
updatePreviewResult(filterArray) ==
  LET filterExpressions == filterExpressionsOf(filterArray, 1)
  IN [previewText |-> buildKibanaPreview(filterExpressions),
      previewHtml |-> buildKibanaPreviewHtml(filterExpressions)]

updatePreview ==
  /\ previewText' = updatePreviewResult(filters).previewText
  /\ previewHtml' = updatePreviewResult(filters).previewHtml
  /\ raised' = NoError
  /\ emitted' = NotEmitted
  /\ UNCHANGED <<filters, showQueryDSL, queryDSL, serviceVars, callVars, heapVars,
                 wrapperVars>>

\* toggleQueryDSL: the flag is flipped before generateQueryDSL is called, so it
\* stays flipped when the call throws.
toggleQueryDSL ==
  /\ showQueryDSL' = ~showQueryDSL
  /\ IF ~showQueryDSL
     THEN /\ raised' = generateFlatQueryDSL(filters).raised
          /\ queryDSL' = IF generateFlatQueryDSL(filters).raised = NoError
                         THEN generateFlatQueryDSL(filters).queryDSL
                         ELSE queryDSL
     ELSE /\ raised' = NoError
          /\ queryDSL' = queryDSL
  /\ emitted' = NotEmitted
  /\ UNCHANGED <<filters, previewText, previewHtml, serviceVars, callVars,
                 heapVars, wrapperVars>>

\* ------------------------------------------------------------------ reset
reset ==
  /\ nextId <= MaxId
  /\ filterTree' = [root |-> null, id |-> nextId]
  /\ nextId' = nextId + 1
  /\ prevTree' = filterTree
  /\ lastCall' = [op |-> "reset"]
  /\ UNCHANGED <<formVars, callVars, heapVars, wrapperVars>>

\* ------------------------------------------------------------------- spec
NoCall == [op |-> "none"]

NotCalled == [pending |-> TRUE]

\* The service as constructed.
\* field initialiser: { root: null, id: this.generateId() }
ServiceInit ==
  /\ filterTree = [root |-> null, id |-> 1]
  /\ nextId = 2
  /\ prevTree = [root |-> null, id |-> 1]
  /\ lastCall = NoCall

\* The filter bar as constructed: an empty FormArray, the field initialisers.
FormInit ==
  /\ filters = <<>>
  /\ previewText = <<>>
  /\ previewHtml = <<>>
  /\ showQueryDSL = FALSE
  /\ queryDSL = NoDocument
  /\ raised = NoError
  /\ emitted = NotEmitted

\* No private function has been applied on its own.
CallInit ==
  /\ arg = NotCalled
  /\ ret = NotCalled

\* The service's first tree object; no caller holds a tree.
HeapInit ==
  /\ heap = (1 :> [root |-> null, id |-> 1])
  /\ subject = Ref(1)
  /\ held = NotHeld
  /\ snapshot = NotHeld

\* activeFilters: FilterGroup | null = null
WrapperInit == activeFilters = null

Init == ServiceInit /\ FormInit /\ CallInit /\ HeapInit /\ WrapperInit

\* ids a caller can pass: the id of every node of the tree, and 0, an id that
\* generateId never issues
CallerIds == TreeIds(filterTree.root) \cup {0}

\* Partial<FilterCondition> values handed to modifyFilter.  Any field of a
\* FilterCondition may be present, the id included: the updates offered here
\* set the value and carry the id of a BooleanNode of the tree or of its root.
GroupIds(r) == {TreeGroups(r)[i].id : i \in 1..Len(TreeGroups(r))}

Updates ==
  IF filterTree.root = null THEN {[value |-> "500"]}
  ELSE {[id |-> i, value |-> "500"] :
          i \in GroupIds(filterTree.root) \cup {filterTree.root.id}}

Next ==
  \/ \E p \in CallerIds, rel \in Relations, f \in Filters : addFilter(p, rel, f)
  \/ \E n \in CallerIds, rel \in Relations \cup {nullOperator}, u \in Updates :
        modifyFilter(n, rel, u)
  \/ \E n \in CallerIds : removeFilter(n)
  \/ \E n \in CallerIds : toggleOperator(n)
  \/ reset

Spec == Init /\ [][Next]_vars

\* ------------------------------------------ the service as the tree editor
\* The tree editor adds a condition before its field and operator are chosen
\* (FilterNodeComponent's addFilter event carries no filter), so the conditions
\* handed to addFilter here are a blank one, a complete one, and a range
\* condition with no bound.
QueryFilters ==
  { <<>>,
    [field |-> "host.keyword", operator |-> "is", value |-> "web01"],
    [field |-> "bytes", operator |-> "range"] }

QueryNext ==
  \/ \E p \in CallerIds, rel \in Relations, f \in QueryFilters :
        addFilter(p, rel, f)
  \/ \E n \in CallerIds : removeFilter(n)
  \/ \E n \in CallerIds : toggleOperator(n)
  \/ reset

SpecQuery == Init /\ [][QueryNext]_vars

\* ------------------------------------- the service with a caller's reference
\* The four editing calls on the trees as objects, and a caller that takes the
\* tree from getFilterTree at any time and keeps it.
HeldUpdates == {[value |-> "500"]}

HeldNext ==
  \/ getFilterTreeHeld
  \/ \E p \in CallerIds, rel \in Relations, f \in Filters :
        addFilterHeld(p, rel, f)
  \/ \E n \in CallerIds, rel \in Relations \cup {nullOperator},
         u \in HeldUpdates : modifyFilterHeld(n, rel, u)
  \/ \E n \in CallerIds : removeFilterHeld(n)
  \/ \E n \in CallerIds : toggleOperatorHeld(n)

SpecHeld == Init /\ [][HeldNext]_vars

\* generateQueryDSL and updatePreview read nothing but the value of the form.
\* They are applied to every form of up to MaxRows rows whose rows are blank
\* (as addFilter creates them), complete, or complete but for the bounds of a
\* range; the first row carries no logic.
MaxRows == 4

RowConditions ==
  { [field |-> "", operator |-> "", value |-> ""],
    [field |-> "host.keyword", operator |-> "is", value |-> "web01"],
    [field |-> "status", operator |-> "is_not", value |-> "500"],
    [field |-> "bytes", operator |-> "range", value |-> ""],
    [field |-> "verb.keyword", operator |-> "is_one_of", value |-> "GET,POST"] }

FormRows(first) ==
  {Spread(BlankRow(logic), c) :
     logic \in (IF first THEN {""} ELSE Relations), c \in RowConditions}

RECURSIVE FormsOf(_)
\* the forms of n rows
FormsOf(n) ==
  IF n = 0 THEN {<<>>}
  ELSE IF n = 1 THEN {<<r>> : r \in FormRows(TRUE)}
  ELSE {Append(f, r) : f \in FormsOf(n - 1), r \in FormRows(FALSE)}

FlatInit ==
  /\ ServiceInit
  /\ CallInit
  /\ HeapInit
  /\ WrapperInit
  /\ filters \in UNION {FormsOf(n) : n \in 0..MaxRows}
  /\ previewText = <<>>
  /\ previewHtml = <<>>
  /\ showQueryDSL = FALSE
  /\ queryDSL = NoDocument
  /\ raised = NoError
  /\ emitted = NotEmitted

FlatNext == toggleQueryDSL \/ updatePreview

SpecFlat == FlatInit /\ [][FlatNext]_vars

\* ------------------------------ one condition, compiled and shown both ways
\* The same condition is handed to the service's buildSingleFilterQuery and
\* is the only row of the filter bar's form.  The conditions are those of the
\* ten operators of the clause table over a keyword field, a text field and a
\* timestamp field, with no value, a word, a number or a list; a range
\* condition has neither bound, one of them or both.
Conditions ==
  {[field |-> f, operator |-> o, value |-> v, minValue |-> "", maxValue |-> ""] :
     f \in {"host.keyword", "status", "@timestamp"},
     o \in {"is", "is_not", "is_one_of", "is_not_one_of", "exists",
            "does_not_exist", "prefix", "wildcard", "query_string"},
     v \in {"", "web01", "500", "GET,POST"}}
  \cup
  {[field |-> f, operator |-> "range", value |-> "", minValue |-> lo,
    maxValue |-> hi] :
     f \in {"host.keyword", "status", "@timestamp"},
     lo \in {"", "-7"}, hi \in {"", "500"}}

ConditionInit ==
  /\ ServiceInit
  /\ HeapInit
  /\ WrapperInit
  /\ \E c \in Conditions :
       /\ arg = NewCondition(2, c)
       /\ filters = <<Spread(BlankRow(""), c)>>
  /\ ret = NotCalled
  /\ previewText = <<>>
  /\ previewHtml = <<>>
  /\ showQueryDSL = FALSE
  /\ queryDSL = NoDocument
  /\ raised = NoError
  /\ emitted = NotEmitted

\* buildSingleFilterQuery(arg)
callBuildSingleFilterQuery ==
  /\ ret = NotCalled
  /\ ret' = buildSingleFilterQuery(arg)
  /\ arg' = arg
  /\ UNCHANGED <<serviceVars, formVars, heapVars, wrapperVars>>

ConditionNext == callBuildSingleFilterQuery \/ toggleQueryDSL \/ updatePreview

SpecCondition == ConditionInit /\ [][ConditionNext]_vars

\* ------------------------------------------------- the filter bar's form
\* The rows of the FormArray are added, removed and filled in one at a time.
\* The form holds at most MaxFormRows rows.
MaxFormRows == 2

\* FormArray.removeAt(index), index counted from 0
removeAt(filterArray, index) ==
  SubSeq(filterArray, 1, index) \o SubSeq(filterArray, index + 2, Len(filterArray))

\* FormArray.insert(index, control), index counted from 0
insertAt(filterArray, index, control) ==
  SubSeq(filterArray, 1, index) \o <<control>>
    \o SubSeq(filterArray, index + 1, Len(filterArray))

\* firstFilter.get('logic')?.setValue('')
withoutFirstLogic(filterArray) ==
  [filterArray EXCEPT ![1] = [@ EXCEPT !.logic = ""]]

\* removeFilter that leaves the logic of the row that becomes the first
removeFilterRows_KeepLogic(filterArray, index) ==
  removeAt(filterArray, index)

\* The rows that removeFilter(index) leaves in the form.
removeFilterRows(filterArray, index) ==
  LET rest == removeAt(filterArray, index)
  IN IF Len(rest) > 0 /\ index = 0 THEN withoutFirstLogic(rest) ELSE rest

\* The trailing this.updatePreview() of a handler that leaves filterArray in
\* the form.
updatePreviewOf(filterArray) ==
  /\ previewText' = updatePreviewResult(filterArray).previewText
  /\ previewHtml' = updatePreviewResult(filterArray).previewHtml

\* KibanaFilterBarComponent.addFilter(logic); ngOnInit and ngOnChanges call it
\* with the default 'AND' when the form has no row.
formAddFilter(logic) ==
  /\ Len(filters) < MaxFormRows
  /\ filters' = Append(filters, BlankRow(IF Len(filters) = 0 THEN "" ELSE logic))
  /\ updatePreviewOf(filters')
  /\ raised' = NoError
  /\ emitted' = NotEmitted
  /\ UNCHANGED <<showQueryDSL, queryDSL, serviceVars, callVars, heapVars,
                 wrapperVars>>

\* KibanaFilterBarComponent.removeFilter(index)
formRemoveFilter(index) ==
  /\ index \in 0..(Len(filters) - 1)
  /\ filters' = removeFilterRows(filters, index)
  /\ updatePreviewOf(filters')
  /\ raised' = NoError
  /\ emitted' = NotEmitted
  /\ UNCHANGED <<showQueryDSL, queryDSL, serviceVars, callVars, heapVars,
                 wrapperVars>>

addFilterWithLogic(index, logic) ==
  /\ Len(filters) < MaxFormRows
  /\ index \in 0..(Len(filters) - 1)
  /\ filters' = insertAt(filters, index + 1, BlankRow(logic))
  /\ updatePreviewOf(filters')
  /\ raised' = NoError
  /\ emitted' = NotEmitted
  /\ UNCHANGED <<showQueryDSL, queryDSL, serviceVars, callVars, heapVars,
                 wrapperVars>>

\* The field select of row index is set to field, and its change handler runs.
onFieldChange(index, field) ==
  /\ index \in 0..(Len(filters) - 1)
  /\ filters' = [filters EXCEPT ![index + 1] =
                   [@ EXCEPT !.field = field, !.value = ""]]
  /\ updatePreviewOf(filters')
  /\ raised' = NoError
  /\ emitted' = NotEmitted
  /\ UNCHANGED <<showQueryDSL, queryDSL, serviceVars, callVars, heapVars,
                 wrapperVars>>

\* The row that onOperatorChange leaves once the operator select holds operator.
operatorChanged(row, operator) ==
  LET normalizedOperator == normalizeOperator(operator)
  IN IF normalizedOperator \in {"exists", "does_not_exist", "notExists",
                                "prefix", "wildcard", "query_string"}
     THEN [row EXCEPT !.operator = operator, !.value = ""]
     ELSE IF normalizedOperator = "range"
     THEN [row EXCEPT !.operator = operator, !.value = "",
                      !.minOperator = "gt", !.minValue = "",
                      !.maxOperator = "lt", !.maxValue = ""]
     ELSE [row EXCEPT !.operator = operator]

\* The operator select of row index is set to operator, and its change handler
\* runs.
onOperatorChange(index, operator) ==
  /\ index \in 0..(Len(filters) - 1)
  /\ filters' = [filters EXCEPT ![index + 1] = operatorChanged(@, operator)]
  /\ updatePreviewOf(filters')
  /\ raised' = NoError
  /\ emitted' = NotEmitted
  /\ UNCHANGED <<showQueryDSL, queryDSL, serviceVars, callVars, heapVars,
                 wrapperVars>>

\* The value control of row index is written; no handler of the component runs.
typeValue(index, value) ==
  /\ index \in 0..(Len(filters) - 1)
  /\ filters' = [filters EXCEPT ![index + 1] = [@ EXCEPT !.value = value]]
  /\ raised' = NoError
  /\ emitted' = NotEmitted
  /\ UNCHANGED <<previewText, previewHtml, showQueryDSL, queryDSL, serviceVars,
                 callVars, heapVars, wrapperVars>>

\* resetForm: every row is removed, addFilter() adds the one blank row and
\* shows it, then the previews and the flag are cleared.
resetForm ==
  /\ filters' = <<BlankRow("")>>
  /\ previewText' = <<>>
  /\ previewHtml' = <<>>
  /\ showQueryDSL' = FALSE
  /\ raised' = NoError
  /\ emitted' = NotEmitted
  /\ UNCHANGED <<queryDSL, serviceVars, callVars, heapVars, wrapperVars>>

\* a form that is never invalid
formInvalid_Never(filterArray) == FALSE

\* filterForm.invalid: field and operator of every row are required
formInvalid(filterArray) ==
  \E i \in 1..Len(filterArray) :
     filterArray[i].field = "" \/ filterArray[i].operator = ""

\* the predicate of applyFilters' filterArray.filter
isValidFilter(f) ==
  IF f.field = "" \/ f.operator = "" THEN FALSE
  ELSE LET normalizedOperator == normalizeOperator(f.operator)
       IN IF normalizedOperator \in {"exists", "does_not_exist"} THEN TRUE
          ELSE IF normalizedOperator = "range"
          THEN f.minValue # "" \/ f.maxValue # ""
          ELSE f.value # ""

RECURSIVE validFiltersOf(_)
validFiltersOf(filterArray) ==
  IF filterArray = <<>> THEN <<>>
  ELSE (IF isValidFilter(Head(filterArray)) THEN <<Head(filterArray)>> ELSE <<>>)
         \o validFiltersOf(Tail(filterArray))

\* applyFilters.  customLabel is left out of the FilterGroup.  The document
\* of the FilterGroup is JSON.parse of the text that generateQueryDSL has just
\* written; the documents hold strings, finite numbers, booleans, lists and
\* objects, which the text keeps as they are.
applyFilters ==
  IF formInvalid(filters)
  THEN /\ updatePreviewOf(filters)
       /\ raised' = NoError
       /\ emitted' = NotEmitted
       /\ UNCHANGED <<filters, showQueryDSL, queryDSL, serviceVars, callVars,
                      heapVars, wrapperVars>>
  ELSE IF Len(validFiltersOf(filters)) = 0
  THEN /\ raised' = NoError
       /\ emitted' = NotEmitted
       /\ UNCHANGED <<filters, previewText, previewHtml, showQueryDSL, queryDSL,
                      serviceVars, callVars, heapVars, wrapperVars>>
  ELSE LET r == generateFlatQueryDSL(filters)
       IN /\ raised' = r.raised
          /\ queryDSL' = IF r.raised = NoError THEN r.queryDSL ELSE queryDSL
          /\ emitted' = IF r.raised = NoError
                        THEN [filters |-> validFiltersOf(filters),
                              queryDSL |-> r.queryDSL]
                        ELSE NotEmitted
          /\ UNCHANGED <<filters, previewText, previewHtml, showQueryDSL,
                         serviceVars, callVars, heapVars, wrapperVars>>

\* what the user picks in the selects and types in the value control
FormFields == {"host.keyword"}
FormOperators == {"is", "range", "exists"}
FormValues == {"", "web01"}

FormNext ==
  \/ \E logic \in Relations : formAddFilter(logic)
  \/ \E index \in 0..(MaxFormRows - 1) : formRemoveFilter(index)
  \/ \E index \in 0..(MaxFormRows - 1), logic \in Relations :
       addFilterWithLogic(index, logic)
  \/ \E index \in 0..(MaxFormRows - 1), field \in FormFields :
       onFieldChange(index, field)
  \/ \E index \in 0..(MaxFormRows - 1), operator \in FormOperators :
       onOperatorChange(index, operator)
  \/ \E index \in 0..(MaxFormRows - 1), value \in FormValues :
       typeValue(index, value)
  \/ resetForm

SpecForm == Init /\ [][FormNext]_vars

\* applyFilters reads nothing but the value of the form: it is applied to the
\* forms that generateQueryDSL and updatePreview are applied to.
SubmitNext == applyFilters \/ updatePreview

SpecSubmit == FlatInit /\ [][SubmitNext]_vars

\* ------------------------------------------ DashboardFilterWrapperComponent
\* operatorMap[operator] || operator, with the wrapper's own map
wrapperOperatorMap ==
  [ is |-> "is", isNot |-> "is_not", is_not |-> "is_not",
    terms |-> "is_one_of", is_one_of |-> "is_one_of",
    notTerms |-> "is_not_one_of", is_not_one_of |-> "is_not_one_of",
    exists |-> "exists", notExists |-> "does_not_exist",
    does_not_exist |-> "does_not_exist" ]

wrapperNormalizeOperator(operator) ==
  IF operator \in DOMAIN wrapperOperatorMap
  THEN wrapperOperatorMap[operator] ELSE operator

\* The clause that generateQueryDSLFromFilters' forEach callback builds for
\* one filter, or null when the callback returns without pushing one.
wrapperRowQuery(filter) ==
  IF filter.field = "" \/ filter.operator = "" THEN null
  ELSE LET isKeyword == isKeywordField(filter.field)
           normalizedOperator == wrapperNormalizeOperator(filter.operator)
       IN CASE normalizedOperator = "is" ->
                 IF isKeyword
                 THEN [term |-> (filter.field :> Str(filter.value))]
                 ELSE [match |-> (filter.field :> Str(filter.value))]
            [] normalizedOperator = "is_not" ->
                 IF isKeyword
                 THEN mustNot([term |-> (filter.field :> Str(filter.value))])
                 ELSE mustNot([match |-> (filter.field :> Str(filter.value))])
            [] normalizedOperator = "is_one_of" ->
                 [terms |-> (filter.field :> splitValues(filter.value))]
            [] normalizedOperator = "is_not_one_of" ->
                 mustNot([terms |-> (filter.field :> splitValues(filter.value))])
            [] normalizedOperator = "exists" ->
                 [exists |-> [field |-> filter.field]]
            [] normalizedOperator = "does_not_exist" ->
                 mustNot([exists |-> [field |-> filter.field]])
            [] OTHER -> null

RECURSIVE wrapperQueries(_, _, _)
\* mustQueries (must = TRUE) or shouldQueries (must = FALSE): the clauses of
\* the filters from index on that are pushed on that list
wrapperQueries(filterList, index, must) ==
  IF index > Len(filterList) THEN <<>>
  ELSE LET query == wrapperRowQuery(filterList[index])
           toMust == index = 1 \/ logicOrAnd(filterList[index].logic) = "AND"
           rest == wrapperQueries(filterList, index + 1, must)
       IN IF query # null /\ toMust = must THEN <<query>> \o rest ELSE rest

\* generateQueryDSLFromFilters as a function of activeFilters.filters: the
\* document assigned to activeFilters.queryDSL.
generateQueryDSLFromFilters(filterList) ==
  LET mustQueries == wrapperQueries(filterList, 1, TRUE)
      shouldQueries == wrapperQueries(filterList, 1, FALSE)
      boolQuery ==
        (IF Len(mustQueries) > 0 THEN [must |-> mustQueries] ELSE EmptyObject)
        @@
        (IF Len(shouldQueries) > 0
         THEN [should |-> shouldQueries, minimum_should_match |-> 1]
         ELSE EmptyObject)
  IN [query |-> [bool |-> boolQuery]]

\* onFiltersApplied(filterGroup), for the FilterGroup that the filter bar sent
onFiltersApplied ==
  /\ emitted # NotEmitted
  /\ activeFilters' = emitted
  /\ UNCHANGED <<serviceVars, formVars, callVars, heapVars>>

clearFilters ==
  /\ activeFilters' = null
  /\ UNCHANGED <<serviceVars, formVars, callVars, heapVars>>

\* DashboardFilterWrapperComponent.removeFilter(index), for the index of a
\* filter that is shown
wrapperRemoveFilter(index) ==
  /\ activeFilters # null
  /\ index \in 0..(Len(activeFilters.filters) - 1)
  /\ LET rest == removeAt(activeFilters.filters, index)
     IN activeFilters' =
          IF Len(rest) = 0 THEN null
          ELSE [filters |-> rest, queryDSL |-> generateQueryDSLFromFilters(rest)]
  /\ UNCHANGED <<serviceVars, formVars, callVars, heapVars>>

\* The filter bar submits a form, the wrapper takes the FilterGroup, and
\* filters are removed from it one at a time.
DashboardNext ==
  \/ applyFilters
  \/ onFiltersApplied
  \/ clearFilters
  \/ \E index \in 0..(MaxRows - 1) : wrapperRemoveFilter(index)

SpecDashboard == FlatInit /\ [][DashboardNext]_vars

\* ------------------------------------- the backend's buildElasticsearchQuery
\* An elastic-builder query is held as the clause that the builder calls name:
\* the query type, the field and the values handed to them.  The cases of the
\* switch that name an operator in other spellings lead to the same code.
backendOperator(operator) ==
  CASE operator \in {"is", "IS"} -> "is"
    [] operator \in {"is_not", "isNot", "IS_NOT"} -> "is_not"
    [] operator \in {"is_one_of", "terms", "TERMS"} -> "is_one_of"
    [] operator \in {"is_not_one_of", "notTerms", "NOT_TERMS"} -> "is_not_one_of"
    [] operator \in {"exists", "EXISTS"} -> "exists"
    [] operator \in {"does_not_exist", "notExists", "NOT_EXISTS"} -> "does_not_exist"
    [] operator \in {"range", "RANGE"} -> "range"
    [] operator \in {"prefix", "PREFIX"} -> "prefix"
    [] operator \in {"wildcard", "WILDCARD"} -> "wildcard"
    [] operator \in {"query_string", "queryString", "QUERY_STRING"} -> "query_string"
    [] OTHER -> "default"

\* rangeQuery of the case 'range': the max bound is written after the min bound
backendRangeQuery(filter) ==
  (IF filter.maxValue # ""
   THEN (IF filter.maxOperator # "" THEN filter.maxOperator ELSE "lt")
          :> Str(filter.maxValue)
   ELSE EmptyObject)
  @@
  (IF filter.minValue # ""
   THEN (IF filter.minOperator # "" THEN filter.minOperator ELSE "gt")
          :> Str(filter.minValue)
   ELSE EmptyObject)

\* queryJSON of the forEach callback for one filter, or null when the callback
\* returns before the grouping
backendQuery(filter) ==
  IF filter.field = "" \/ filter.operator = "" THEN null
  ELSE LET field == filter.field
           value == filter.value
           isKeyword == isKeywordField(field)
           operator == backendOperator(filter.operator)
       IN CASE operator = "is" ->
                 IF isKeyword THEN [term |-> (field :> Str(value))]
                 ELSE [match |-> (field :> Str(value))]
            [] operator = "is_not" ->
                 IF isKeyword THEN mustNot([term |-> (field :> Str(value))])
                 ELSE mustNot([match |-> (field :> Str(value))])
            [] operator = "is_one_of" ->
                 [terms |-> (field :> splitValues(value))]
            [] operator = "is_not_one_of" ->
                 mustNot([terms |-> (field :> splitValues(value))])
            [] operator = "exists" -> [exists |-> [field |-> field]]
            [] operator = "does_not_exist" ->
                 mustNot([exists |-> [field |-> field]])
            [] operator = "range" ->
                 IF DOMAIN backendRangeQuery(filter) # {}
                 THEN [range |-> (field :> backendRangeQuery(filter))]
                 ELSE null
            [] operator = "prefix" ->
                 IF value = "" THEN null
                 ELSE IF isKeyword THEN [prefix |-> (field :> Str(value))]
                 ELSE [wildcard |-> (field :> [value |-> Str(value \o "*"),
                                               case_insensitive |-> TRUE])]
            [] operator = "wildcard" ->
                 IF value = "" THEN null
                 ELSE [wildcard |-> (field :> [value |-> Str(value),
                                               case_insensitive |-> TRUE])]
            [] operator = "query_string" ->
                 IF value = "" THEN null
                 ELSE [query_string |-> [default_field |-> field,
                                         query |-> Str(value)]]
            [] OTHER -> null

\* what is pushed on queryGroups for a group that is closed
closedGroup(currentGroup) ==
  IF Len(currentGroup) = 1 THEN currentGroup[1] ELSE shouldOf(currentGroup)

RECURSIVE groupQueries(_, _, _, _)
\* queryGroups after the forEach from row index on (index counted from 1 here,
\* from 0 in the source) and after the last group is added
groupQueries(filterList, index, queryGroups, currentGroup) ==
  IF index > Len(filterList)
  THEN IF Len(currentGroup) > 0
       THEN Append(queryGroups, closedGroup(currentGroup))
       ELSE queryGroups
  ELSE LET queryJSON == backendQuery(filterList[index])
           logic == logicOrAnd(filterList[index].logic)
       IN IF queryJSON = null
          THEN groupQueries(filterList, index + 1, queryGroups, currentGroup)
          ELSE IF index = 1 \/ logic \in {"OR", "or"}
          THEN groupQueries(filterList, index + 1, queryGroups,
                            Append(currentGroup, queryJSON))
          ELSE IF Len(currentGroup) > 0
          THEN groupQueries(filterList, index + 1,
                            Append(queryGroups, closedGroup(currentGroup)),
                            <<queryJSON>>)
          ELSE groupQueries(filterList, index + 1, queryGroups, currentGroup)

buildElasticsearchQuery(filterList) ==
  IF Len(filterList) = 0 THEN [query |-> MatchAll]
  ELSE LET queryGroups == groupQueries(filterList, 1, <<>>, <<>>)
       IN [query |-> [bool |-> IF Len(queryGroups) > 0
                               THEN [must |-> queryGroups]
                               ELSE EmptyObject]]

\* buildElasticsearchQuery is applied to the lists of up to MaxBackendFilters
\* filters, each a well-formed condition, a condition without field, one of
\* an unknown operator or a range without bounds, under each logic tag.
MaxBackendFilters == 3

BackendConditions ==
  { [field |-> "host.keyword", operator |-> "is", value |-> "web01"],
    [field |-> "status", operator |-> "exists", value |-> ""],
    [field |-> "", operator |-> "is", value |-> "web01"],
    [field |-> "status", operator |-> "regex", value |-> "5.."],
    [field |-> "bytes", operator |-> "range", value |-> ""] }

BackendFilters ==
  {Spread(BlankRow(logic), c) :
     logic \in {"", "AND", "OR"}, c \in BackendConditions}

RECURSIVE BackendLists(_)
\* the lists of n filters
BackendLists(n) ==
  IF n = 0 THEN {<<>>}
  ELSE {Append(l, f) : l \in BackendLists(n - 1), f \in BackendFilters}

BackendInit ==
  /\ ServiceInit
  /\ FormInit
  /\ HeapInit
  /\ WrapperInit
  /\ arg \in UNION {BackendLists(n) : n \in 0..MaxBackendFilters}
  /\ ret = NotCalled

callBuildElasticsearchQuery ==
  /\ ret = NotCalled
  /\ ret' = buildElasticsearchQuery(arg)
  /\ arg' = arg
  /\ UNCHANGED <<serviceVars, formVars, heapVars, wrapperVars>>

BackendNext == callBuildElasticsearchQuery

SpecBackend == BackendInit /\ [][BackendNext]_vars

\* ------------------------------------- FilterBuilderService.normalizeFilters
\* The JavaScript undefined: what removeFilter writes over the removed filter.
undefined == [undefined |-> TRUE]

\* isCombinedFilter of ../filter.model, for a filter that is not undefined:
\* buildCombinedFilter gives a combined filter the meta.type 'combined'.
isCombinedFilter(f) == f.meta.type = "combined"

\* filter(Boolean) over a list of filters and undefined
nonEmpty(filtersArray) == SelectSeq(filtersArray, LAMBDA f : f # undefined)

RECURSIVE normalizeArray(_)
RECURSIVE normalizeCombined(_)
\* normalizeRecursively for one filter.  The items of a Filter[] are filters,
\* never lists, so the list branches of normalizeArray's map and its flat()
\* change nothing.
normalizeRecursively(f) ==
  IF isCombinedFilter(f) THEN normalizeCombined(f) ELSE f

\* normalizeArray for a list of filters: each item normalized, the undefined
\* results removed
normalizeArray(filtersArray) ==
  nonEmpty([i \in 1..Len(filtersArray) |-> normalizeRecursively(filtersArray[i])])

normalizeCombined(combinedFilter) ==
  LET nonEmptyCombinedFilters == nonEmpty(combinedFilter.meta.params)
  IN IF Len(nonEmptyCombinedFilters) < 2
     THEN IF Len(nonEmptyCombinedFilters) = 0 THEN undefined
          ELSE nonEmptyCombinedFilters[1]
     ELSE [combinedFilter EXCEPT
             !.meta.params = normalizeArray(nonEmptyCombinedFilters)]

normalizeFilters(filterList) == normalizeArray(filterList)

\* normalizeFilters is applied to the lists of up to MaxFilterList filters
\* whose combined filters nest up to MaxFilterDepth deep and hold no param,
\* one or two, a param being a filter or the undefined that removeFilter
\* leaves.
MaxFilterDepth == 2
MaxFilterList == 2

PhraseFilter == [meta |-> [type |-> "phrase", key |-> "host"]]

\* buildCombinedFilter(relation, filters)
buildCombinedFilter(relation, params) ==
  [meta |-> [type |-> "combined", relation |-> relation, params |-> params]]

RECURSIVE BuilderFilters(_)
BuilderFilters(d) ==
  IF d = 0 THEN {PhraseFilter}
  ELSE LET S == BuilderFilters(d - 1) \cup {undefined}
           Params == {<<>>} \cup {<<a>> : a \in S}
                            \cup {<<a, b>> : a \in S, b \in S}
       IN BuilderFilters(d - 1)
            \cup {buildCombinedFilter(IF d % 2 = 1 THEN "AND" ELSE "OR", p) :
                    p \in Params}

RECURSIVE BuilderLists(_)
BuilderLists(n) ==
  IF n = 0 THEN {<<>>}
  ELSE {Append(l, f) : l \in BuilderLists(n - 1),
                       f \in BuilderFilters(MaxFilterDepth)}

BuilderInit ==
  /\ ServiceInit
  /\ FormInit
  /\ HeapInit
  /\ WrapperInit
  /\ arg \in UNION {BuilderLists(n) : n \in 0..MaxFilterList}
  /\ ret = NotCalled

\* ret holds the list that the call returns
callNormalizeFilters ==
  /\ ret = NotCalled
  /\ ret' = [filters |-> normalizeFilters(arg)]
  /\ arg' = arg
  /\ UNCHANGED <<serviceVars, formVars, heapVars, wrapperVars>>

BuilderNext == callNormalizeFilters

SpecBuilder == BuilderInit /\ [][BuilderNext]_vars

\* ------------------------------------------- normalizeNode applied on its own
\* normalizeNode takes any FilterNode | null.  The nodes handed to it here are
\* all the trees of height at most NormDepth over two conditions whose groups
\* have no child, one child or two children, and null.
NormDepth == 2

NormConditions == {NewCondition(i, f) : i \in {1, 2}, f \in Filters}

RECURSIVE NormNodes(_)
NormNodes(d) ==
  IF d = 0 THEN NormConditions
  ELSE LET S == NormNodes(d - 1)
           Children == {<<>>} \cup {<<a>> : a \in S}
                              \cup {<<a, b>> : a \in S, b \in S}
       IN S \cup {[id |-> 10 + d,
                   operator |-> IF d % 2 = 1 THEN "AND" ELSE "OR",
                   children |-> c] : c \in Children}

NormInit ==
  /\ ServiceInit
  /\ FormInit
  /\ HeapInit
  /\ WrapperInit
  /\ arg \in NormNodes(NormDepth) \cup {null}
  /\ ret = NotCalled

\* normalizeNode(arg)
callNormalizeNode ==
  /\ ret = NotCalled
  /\ ret' = normalizeNode(arg)
  /\ arg' = arg
  /\ UNCHANGED <<serviceVars, formVars, heapVars, wrapperVars>>

\* the node returned is handed to normalizeNode again
callNormalizeNodeAgain ==
  /\ ret # NotCalled
  /\ ret # arg
  /\ arg' = ret
  /\ ret' = NotCalled
  /\ UNCHANGED <<serviceVars, formVars, heapVars, wrapperVars>>

NormNext == callNormalizeNode \/ callNormalizeNodeAgain

SpecNormalize == NormInit /\ [][NormNext]_vars

\* ================================================================== claims
\* Positions in a tree: a path is the sequence of child indices from the root.
RECURSIVE Paths(_)
Paths(node) ==
  {<<>>} \cup
  (IF isBooleanNode(node)
   THEN UNION {{<<i>> \o p : p \in Paths(node.children[i])} :
                 i \in 1..Len(node.children)}
   ELSE {})

TreePaths(r) == IF r = null THEN {} ELSE Paths(r)

RECURSIVE NodeAt(_, _)
NodeAt(node, path) ==
  IF path = <<>> THEN node
  ELSE NodeAt(node.children[Head(path)], Tail(path))

RECURSIVE ReplaceAt(_, _, _)
\* the tree with the subtree at path replaced, everything else as it was
ReplaceAt(node, path, new) ==
  IF path = <<>> THEN new
  ELSE [node EXCEPT !.children[Head(path)] = ReplaceAt(@, Tail(path), new)]

\* a FilterCondition as addFilter builds it from filter, under an id that the
\* tree did not hold
IsNewCondition(c, filter, oldRoot) ==
  /\ isFilterCondition(c)
  /\ c.id \notin TreeIds(oldRoot)
  /\ c = NewCondition(c.id, filter)

Flip(operator) == IF operator = "AND" THEN "OR" ELSE "AND"

\* The claims about the effect of one call are stated for every reachable tree
\* and every argument, on the tree that the call's action installs.
AfterAdd(p, rel, f) == addFilterResult(filterTree, p, rel, f, nextId).tree.root
AfterModify(n, rel, u) == modifyFilterResult(filterTree, n, rel, u).root
AfterRemove(n) == removeFilterResult(filterTree, n, nextId).tree.root
AfterToggle(n) == toggleOperatorResult(filterTree, n).root

\* ids that occur nowhere in the current tree: 0, which generateId never
\* issues, the issued ids no longer in use, and the next id to be issued
AbsentIds == (0..nextId) \ TreeIds(filterTree.root)

\* C1: removeFilter(nodeId), for a nodeId present in the tree (condition or
\* group, root or not), leaves no node with that id in the tree, and leaves the
\* tree empty when nodeId was the root's id.
C1_RemoveDeletesNode ==
  \A n \in TreeIds(filterTree.root) :
    /\ n \notin TreeIds(AfterRemove(n))
    /\ filterTree.root.id = n => AfterRemove(n) = null

\* C2: after any sequence of addFilter, modifyFilter, removeFilter,
\* toggleOperator and reset calls, every BooleanNode of the current tree has at
\* least two children.
C2_GroupsHaveTwoChildren ==
  \A i \in 1..Len(TreeGroups(filterTree.root)) :
    Len(TreeGroups(filterTree.root)[i].children) >= 2

\* a removeFilter call has just collapsed one group of a tree that keeps another
C2_Witness ==
  /\ lastCall.op = "removeFilter"
  /\ Len(TreeGroups(filterTree.root)) >= 1
  /\ Len(TreeGroups(prevTree.root)) = Len(TreeGroups(filterTree.root)) + 1

\* C3: after any sequence of addFilter, modifyFilter (with any updates, the id
\* included), removeFilter and toggleOperator calls, the node ids of the
\* current tree are pairwise distinct.
C3_IdsDistinct ==
  \A i, j \in 1..Len(TreeIdSeq(filterTree.root)) :
    i # j => TreeIdSeq(filterTree.root)[i] # TreeIdSeq(filterTree.root)[j]

\* C4: addFilter(parentId, relation, c) with parentId the id of a condition X:
\* X is replaced, where it stood, by a new group with a fresh id, the requested
\* relation and the children <<X, c>>, and nothing else in the tree changes.
C4_AddToConditionWraps ==
  \A path \in TreePaths(filterTree.root), rel \in Relations, f \in Filters :
    LET X == NodeAt(filterTree.root, path)
        after == AfterAdd(X.id, rel, f)
    IN isFilterCondition(X)
         => /\ path \in Paths(after)
            /\ LET w == NodeAt(after, path)
               IN /\ isBooleanNode(w)
                  /\ w.id \notin TreeIds(filterTree.root)
                  /\ w.operator = rel
                  /\ Len(w.children) = 2
                  /\ w.children[1] = X
                  /\ IsNewCondition(w.children[2], f, filterTree.root)
                  /\ w.children[2].id # w.id
                  /\ after = ReplaceAt(filterTree.root, path, w)

\* C5: addFilter(parentId, relation, c) with parentId the id of a group G of
\* the requested relation: c becomes the last child of G, G keeps its id, its
\* relation and its previous children in order, and the tree has as many groups
\* as before.
C5_AddToSameRelationAppends ==
  \A path \in TreePaths(filterTree.root), f \in Filters :
    LET G == NodeAt(filterTree.root, path)
    IN isBooleanNode(G)
         => LET after == AfterAdd(G.id, G.operator, f)
            IN /\ path \in Paths(after)
               /\ LET g == NodeAt(after, path)
                  IN /\ isBooleanNode(g)
                     /\ g.id = G.id
                     /\ g.operator = G.operator
                     /\ Len(g.children) = Len(G.children) + 1
                     /\ SubSeq(g.children, 1, Len(G.children)) = G.children
                     /\ IsNewCondition(g.children[Len(g.children)], f,
                                       filterTree.root)
               /\ Len(Groups(after)) = Len(Groups(filterTree.root))

\* C6: addFilter(parentId, relation, c) with parentId the id of a group G of
\* the other relation: G is replaced, where it stood, by a new group with a
\* fresh id, the requested relation and the children <<G, c>>, G itself (id,
\* relation, children) being unchanged inside it.
C6_AddToOtherRelationWraps ==
  \A path \in TreePaths(filterTree.root), f \in Filters :
    LET G == NodeAt(filterTree.root, path)
    IN isBooleanNode(G)
         => LET after == AfterAdd(G.id, Flip(G.operator), f)
            IN /\ path \in Paths(after)
               /\ LET w == NodeAt(after, path)
                  IN /\ isBooleanNode(w)
                     /\ w.id \notin TreeIds(filterTree.root)
                     /\ w.operator = Flip(G.operator)
                     /\ Len(w.children) = 2
                     /\ w.children[1] = G
                     /\ IsNewCondition(w.children[2], f, filterTree.root)
                     /\ w.children[2].id # w.id

\* addFilter has just wrapped a group of the other relation, which is now a
\* non-root group of the tree
C6_Witness ==
  /\ lastCall.op = "addFilter"
  /\ prevTree.root # null
  /\ isBooleanNode(prevTree.root)
  /\ prevTree.root.id = lastCall.nodeId
  /\ prevTree.root.operator # lastCall.operator
  /\ Len(TreeGroups(filterTree.root)) = Len(TreeGroups(prevTree.root)) + 1

\* C7: addFilter on an empty tree, whatever the parentId and the relation,
\* makes the new condition the root itself, not wrapped in a group.
C7_AddToEmptyTree ==
  filterTree.root = null
    => \A p \in 0..nextId, rel \in Relations, f \in Filters :
         /\ AfterAdd(p, rel, f) # null
         /\ ~isBooleanNode(AfterAdd(p, rel, f))
         /\ IsNewCondition(AfterAdd(p, rel, f), f, null)

\* addFilter has just been called on a tree emptied by an earlier call
C7_Witness ==
  /\ lastCall.op = "addFilter"
  /\ prevTree.root = null
  /\ prevTree.id > 1
  /\ isFilterCondition(filterTree.root)

\* C8: with an id that occurs nowhere in the tree, addFilter on a non-empty
\* tree, modifyFilter, removeFilter and toggleOperator leave the root as it was.
C8_UnknownIdIsNoOp ==
  \A n \in AbsentIds :
    /\ filterTree.root # null
         => \A rel \in Relations, f \in Filters :
              AfterAdd(n, rel, f) = filterTree.root
    /\ \A rel \in Relations \cup {nullOperator}, u \in Updates :
         AfterModify(n, rel, u) = filterTree.root
    /\ AfterRemove(n) = filterTree.root
    /\ AfterToggle(n) = filterTree.root

\* modifyFilter has just been called with an unknown id on a tree with a nested
\* group
C8_Witness ==
  /\ lastCall.op = "modifyFilter"
  /\ lastCall.nodeId \notin TreeIds(prevTree.root)
  /\ Len(TreeGroups(prevTree.root)) >= 2

\* C9: for every reachable tree t, every relation and every parentId (present
\* in t, or any id when t is empty), removing the condition that addFilter has
\* just inserted gives a tree whose root equals normalizeNode(root of t).
C9_AddThenRemove ==
  \A p \in 0..nextId, rel \in Relations, f \in Filters :
    (filterTree.root = null \/ p \in TreeIds(filterTree.root))
      => LET added == addFilterResult(filterTree, p, rel, f, nextId)
         IN /\ nextId \in TreeIds(added.tree.root)
            /\ removeFilterResult(added.tree, nextId, added.next).tree.root
                 = normalizeNode(filterTree.root)

\* removeFilter has just taken out the condition that the call before it added
\* to a group, and the tree still holds a group
C9_Witness ==
  /\ lastCall.op = "removeFilter"
  /\ lastCall.nodeId >= nextId - 2
  /\ lastCall.nodeId \in TreeIds(prevTree.root)
  /\ lastCall.nodeId \notin TreeIds(filterTree.root)
  /\ Len(TreeGroups(filterTree.root)) >= 1

\* C10: toggleOperator(id) with the id of a group flips that group's relation
\* and changes nothing else, a second call with the same id restores the tree,
\* and with the id of a condition the call changes nothing.
C10_ToggleFlipsOnlyGroup ==
  \A path \in TreePaths(filterTree.root) :
    LET N == NodeAt(filterTree.root, path)
    IN /\ isBooleanNode(N)
            => /\ AfterToggle(N.id)
                    = ReplaceAt(filterTree.root, path,
                                [N EXCEPT !.operator = Flip(@)])
               /\ toggleOperatorResult([filterTree EXCEPT
                                          !.root = AfterToggle(N.id)],
                                       N.id).root
                    = filterTree.root
       /\ isFilterCondition(N) => AfterToggle(N.id) = filterTree.root

\* C11: for every node t, degenerate groups and chains of them included,
\* normalizeNode(normalizeNode(t)) equals normalizeNode(t), and every
\* BooleanNode of normalizeNode(t) has at least two children.
C11_NormalizeIdempotentClosed ==
  /\ normalizeNode(normalizeNode(arg)) = normalizeNode(arg)
  /\ \A i \in 1..Len(TreeGroups(normalizeNode(arg))) :
       Len(TreeGroups(normalizeNode(arg))[i].children) >= 2
  /\ ret # NotCalled
       => \A i \in 1..Len(TreeGroups(ret)) :
            Len(TreeGroups(ret)[i].children) >= 2

\* normalizeNode has hoisted a condition out of a chain of two single-child
\* groups
C11_Witness ==
  /\ arg # null
  /\ isBooleanNode(arg)
  /\ Len(arg.children) = 1
  /\ isBooleanNode(arg.children[1])
  /\ Len(arg.children[1].children) = 1
  /\ ret # NotCalled
  /\ ret # null
  /\ isFilterCondition(ret)

\* the ids of the nodes met from node down the position path, node included
RECURSIVE IdsAlong(_, _)
IdsAlong(node, path) ==
  <<node.id>> \o (IF path = <<>> THEN <<>>
                  ELSE IdsAlong(node.children[Head(path)], Tail(path)))

\* C12: getNodePath(id) is the empty list iff findNodeById(id) is null;
\* otherwise it is the list of the ids met on the way from the root to the node
\* that findNodeById returns: it starts with the root's id, ends with id, and
\* each element is the id of a group that holds the next one's node as a child.
C12_PathLeadsToFoundNode ==
  \A n \in 0..nextId :
    LET path == getNodePath(filterTree, n)
        found == findNodeById(filterTree, n)
    IN /\ (path = <<>>) <=> (found = null)
       /\ found # null
            => /\ found.id = n
               /\ path[1] = filterTree.root.id
               /\ path[Len(path)] = n
               /\ \E p \in TreePaths(filterTree.root) :
                    /\ NodeAt(filterTree.root, p) = found
                    /\ IdsAlong(filterTree.root, p) = path
                    /\ \A k \in 1..Len(p) :
                         isBooleanNode(NodeAt(filterTree.root,
                                              SubSeq(p, 1, k - 1)))

\* the tree holds a condition two groups below the root, in a group that is
\* not the first child, and an id that no node carries
C12_Witness ==
  /\ filterTree.root # null
  /\ \E n \in TreeIds(filterTree.root) :
       /\ Len(getNodePath(filterTree, n)) = 3
       /\ isFilterCondition(findNodeById(filterTree, n))
       /\ isBooleanNode(filterTree.root.children[2])
       /\ getNodePath(filterTree, n)[2] = filterTree.root.children[2].id
  /\ getNodePath(filterTree, 0) = <<>>

\* the children's results that are neither missing nor match_all, in order
RECURSIVE Survivors(_)
Survivors(queries) ==
  IF queries = <<>> THEN <<>>
  ELSE IF Head(queries) = null \/ Head(queries) = [match_all |-> <<>>]
  THEN Survivors(Tail(queries))
  ELSE <<Head(queries)>> \o Survivors(Tail(queries))

\* C14: the document of a BooleanNode is made of its children's documents
\* without the missing and the match_all ones: match_all when none is left,
\* the one left when there is one, otherwise bool.should over them in child
\* order with minimum_should_match 1 for OR and bool.must over them for AND.
C14_GroupLowering ==
  \A path \in TreePaths(filterTree.root) :
    LET G == NodeAt(filterTree.root, path)
    IN isBooleanNode(G)
         => LET left == Survivors([i \in 1..Len(G.children) |->
                                    generateQueryDSLRecursive(G.children[i])])
                doc == generateQueryDSLRecursive(G)
            IN /\ Len(left) = 0 => doc = [match_all |-> <<>>]
               /\ Len(left) = 1 => doc = left[1]
               /\ Len(left) >= 2 /\ G.operator = "OR"
                    => doc = [bool |-> [should |-> left,
                                        minimum_should_match |-> 1]]
               /\ Len(left) >= 2 /\ G.operator = "AND"
                    => doc = [bool |-> [must |-> left]]

\* the root group holds a group none of whose conditions compiles, which is
\* dropped, and one condition that compiles, whose clause is the document
C14_Witness ==
  /\ filterTree.root # null
  /\ isBooleanNode(filterTree.root)
  /\ \E i \in 1..Len(filterTree.root.children) :
       /\ isBooleanNode(filterTree.root.children[i])
       /\ generateQueryDSLRecursive(filterTree.root.children[i])
            = [match_all |-> <<>>]
  /\ "term" \in DOMAIN generateQueryDSL(filterTree)

\* C15: compiling the empty tree gives the document {query: {match_all: {}}}.
C15_EmptyCompilesToQueryMatchAll ==
  filterTree.root = null
    => generateQueryDSL(filterTree) = [query |-> [match_all |-> <<>>]]

\* the documents a compiler may hand out: one clause, never null
IsClause(doc) ==
  /\ doc # null
  /\ Cardinality(DOMAIN doc) = 1
  /\ DOMAIN doc \subseteq {"match_all", "term", "match", "terms", "exists",
                            "range", "prefix", "wildcard", "query_string",
                            "bool"}

\* C16: for every reachable tree, a tree whose root is one condition that
\* cannot be compiled included, generateQueryDSL returns a clause and never
\* null, and returns match_all when no condition of the tree compiles.
C16_TreeCompilerNeverNull ==
  /\ IsClause(generateQueryDSL(filterTree))
  /\ (\A i \in 1..Len(TreeIdSeq(filterTree.root)) :
        LET n == findNodeById(filterTree, TreeIdSeq(filterTree.root)[i])
        IN isFilterCondition(n) => buildSingleFilterQuery(n) = null)
       => generateQueryDSL(filterTree) = [match_all |-> <<>>]

\* C17: for every form state (no row, rows without field or operator, rows
\* that all yield no clause included) the filter bar's generateQueryDSL raises
\* no error and assigns a document {query: clause}, which is match_all when no
\* row yields a clause.
C17_FlatCompilerAlwaysValid ==
  LET r == generateFlatQueryDSL(filters)
  IN /\ r.raised = NoError
     /\ DOMAIN r.queryDSL = {"query"}
     /\ IsClause(r.queryDSL.query)
     /\ rowQueries(filters, 1) = <<>>
          => r.queryDSL = [query |-> [match_all |-> <<>>]]
     /\ raised = NoError

\* the clause at place i of a list of queries, grouped with what follows it:
\* the clauses up to the end of the run of equal relations that starts after
\* place i are its siblings, and the rest, if any, is one nested group
RECURSIVE RightFold(_, _)
RightFold(queries, i) ==
  IF i = Len(queries) THEN queries[i].query
  ELSE LET rel == queries[i + 1].logic
           \* the last place of the run of rel
           j == CHOOSE k \in (i + 1)..Len(queries) :
                  /\ \A m \in (i + 1)..k : queries[m].logic = rel
                  /\ k = Len(queries) \/ queries[k + 1].logic # rel
           clauses == [m \in 1..(j - i) |-> queries[i + m - 1].query]
                        \o <<RightFold(queries, j)>>
       IN IF rel = "OR"
          THEN [bool |-> [should |-> clauses, minimum_should_match |-> 1]]
          ELSE [bool |-> [must |-> clauses]]

\* a bool.must or bool.should document
IsGroup(doc) ==
  "bool" \in DOMAIN doc
    /\ ("must" \in DOMAIN doc.bool \/ "should" \in DOMAIN doc.bool)

GroupKey(doc) == IF "must" \in DOMAIN doc.bool THEN "must" ELSE "should"

\* no group of doc holds a group of its own kind as a direct element
RECURSIVE NoSameKindInside(_)
NoSameKindInside(doc) ==
  IsGroup(doc)
    => \A k \in 1..Len(doc.bool[GroupKey(doc)]) :
         LET e == doc.bool[GroupKey(doc)][k]
         IN /\ IsGroup(e) => GroupKey(e) # GroupKey(doc)
            /\ NoSameKindInside(e)

\* C18: for every list of two or more compiled clauses, the document groups
\* each clause with the fold of the clauses after it under the relation that
\* follows it, nesting exactly where the relation changes: runs of one relation
\* stay flat, no must holds a must and no should a should, and A OR B AND C
\* gives should[A, must[B, C]].
C18_RightAssociativeFold ==
  LET queries == rowQueries(filters, 1)
      r == generateFlatQueryDSL(filters)
  IN Len(queries) >= 2
       => /\ r.raised = NoError
          /\ r.queryDSL = [query |-> RightFold(queries, 1)]
          /\ NoSameKindInside(r.queryDSL.query)
          /\ (\A i \in 2..Len(queries) : queries[i].logic = queries[2].logic)
               => /\ Len(r.queryDSL.query.bool[GroupKey(r.queryDSL.query)])
                       = Len(queries)
                  /\ \A i \in 1..Len(queries) :
                       r.queryDSL.query.bool[GroupKey(r.queryDSL.query)][i]
                         = queries[i].query
          /\ (Len(queries) = 3 /\ queries[2].logic = "OR"
                               /\ queries[3].logic = "AND")
               => r.queryDSL.query
                    = [bool |-> [should |->
                         <<queries[1].query,
                           [bool |-> [must |-> <<queries[2].query,
                                                 queries[3].query>>]]>>,
                       minimum_should_match |-> 1]]
          /\ (showQueryDSL /\ raised = NoError) => queryDSL = r.queryDSL

\* the document shown was folded from four clauses whose relations are AND,
\* AND, OR: the first clause was added to the must group of the second
C18_Witness ==
  /\ showQueryDSL
  /\ raised = NoError
  /\ Len(rowQueries(filters, 1)) = 4
  /\ rowQueries(filters, 1)[2].logic = "AND"
  /\ rowQueries(filters, 1)[3].logic = "AND"
  /\ rowQueries(filters, 1)[4].logic = "OR"
  /\ Len(queryDSL.query.bool.must) = 3
  /\ IsGroup(queryDSL.query.bool.must[3])

\* the pieces of a preview that are not the text of a condition
PreviewMarkup ==
  {"(", ")", " ", "AND", "OR", "NOT ",
   "<span class=\"preview-not\">NOT</span> <span class=\"preview-field\">",
   "<span class=\"preview-field\">", "</span>",
   " <span class=\"preview-operator\">", "</span> ",
   "<span class=\"preview-group\">"}

\* for each condition of a preview, in order, the number of parentheses that
\* are open around it
RECURSIVE ParenDepths(_, _)
ParenDepths(pieces, depth) ==
  IF pieces = <<>> THEN <<>>
  ELSE IF Head(pieces) = "(" THEN ParenDepths(Tail(pieces), depth + 1)
  ELSE IF Head(pieces) = ")" THEN ParenDepths(Tail(pieces), depth - 1)
  ELSE IF Head(pieces) \in PreviewMarkup THEN ParenDepths(Tail(pieces), depth)
  ELSE <<depth>> \o ParenDepths(Tail(pieces), depth)

\* for each clause of a document, in order, the number of must/should groups
\* around it inside the outermost one
RECURSIVE GroupDepths(_, _, _)
GroupDepths(doc, k, depth) ==
  IF ~IsGroup(doc) THEN <<depth>>
  ELSE IF k > Len(doc.bool[GroupKey(doc)]) THEN <<>>
  ELSE LET e == doc.bool[GroupKey(doc)][k]
       IN (IF IsGroup(e) THEN GroupDepths(e, 1, depth + 1) ELSE <<depth>>)
            \o GroupDepths(doc, k + 1, depth)

\* C20: whenever the form shows one or more conditions and the compiler
\* returns a document, the parentheses open around each condition of the
\* preview text, and of the preview markup, are as many as the must/should
\* groups nested around the clause at the same place of the document.
C20_FlatPreviewCompileParity ==
  LET exprs == filterExpressionsOf(filters, 1)
      r == generateFlatQueryDSL(filters)
      p == updatePreviewResult(filters)
  IN (Len(exprs) >= 1 /\ r.raised = NoError)
       => /\ ParenDepths(p.previewText, 0) = GroupDepths(r.queryDSL.query, 1, 0)
          /\ ParenDepths(p.previewHtml, 0) = GroupDepths(r.queryDSL.query, 1, 0)

\* the number of conditions of a subtree
RECURSIVE LeafCount(_)
LeafCount(node) ==
  IF isBooleanNode(node)
  THEN LET RECURSIVE Sum(_)
           Sum(i) == IF i > Len(node.children) THEN 0
                     ELSE LeafCount(node.children[i]) + Sum(i + 1)
       IN Sum(1)
  ELSE 1

\* for every BooleanNode below node, among its children from k on, the places
\* <<first, last>> of its first and last condition in the order of the tree;
\* first is the place of the first condition of child k
RECURSIVE GroupSpans(_, _, _)
GroupSpans(node, k, first) ==
  IF ~isBooleanNode(node) \/ k > Len(node.children) THEN {}
  ELSE LET c == node.children[k]
       IN (IF isBooleanNode(c)
           THEN {<<first, first + LeafCount(c) - 1>>} \cup GroupSpans(c, 1, first)
           ELSE {})
          \cup GroupSpans(node, k + 1, first + LeafCount(c))

\* for every pair of parentheses of a preview, the places of the first and
\* last condition written between them
RECURSIVE ParenSpans(_, _, _)
ParenSpans(pieces, count, open) ==
  IF pieces = <<>> THEN {}
  ELSE IF Head(pieces) = "(" 
  THEN ParenSpans(Tail(pieces), count, <<count + 1>> \o open)
  ELSE IF Head(pieces) = ")"
  THEN {<<Head(open), count>>} \cup ParenSpans(Tail(pieces), count, Tail(open))
  ELSE IF Head(pieces) \in PreviewMarkup
  THEN ParenSpans(Tail(pieces), count, open)
  ELSE ParenSpans(Tail(pieces), count + 1, open)

\* the number of clauses of a document that are not must/should groups
RECURSIVE ClauseCount(_)
ClauseCount(doc) ==
  IF IsGroup(doc)
  THEN LET RECURSIVE Sum(_)
           Sum(i) == IF i > Len(doc.bool[GroupKey(doc)]) THEN 0
                     ELSE ClauseCount(doc.bool[GroupKey(doc)][i]) + Sum(i + 1)
       IN Sum(1)
  ELSE 1

\* for every must/should group that is an element of another one, the places
\* of its first and last clause
RECURSIVE NestedSpans(_, _, _)
NestedSpans(doc, k, first) ==
  IF ~IsGroup(doc) \/ k > Len(doc.bool[GroupKey(doc)]) THEN {}
  ELSE LET e == doc.bool[GroupKey(doc)][k]
       IN (IF IsGroup(e)
           THEN {<<first, first + ClauseCount(e) - 1>>} \cup NestedSpans(e, 1, first)
           ELSE {})
          \cup NestedSpans(doc, k + 1, first + ClauseCount(e))

\* C19: in every tree the service holds, each BooleanNode below the root has a
\* pair of parentheses around exactly its conditions in the text of
\* generatePreview if and only if the document of generateQueryDSL has a
\* nested must/should group holding exactly the clauses of those conditions.
C19_TreePreviewCompileParity ==
  filterTree.root # null =>
    \A span \in GroupSpans(filterTree.root, 1, 1) :
      span \in ParenSpans(generatePreview(filterTree), 0, <<>>)
        <=> span \in NestedSpans(generateQueryDSL(filterTree), 1, 1)

\* C13: the tree that a caller got from getFilterTree has, after every later
\* call of addFilter, modifyFilter, removeFilter and toggleOperator, the value
\* it had when the caller got it.
C13_CopyOnWrite ==
  held # NotHeld => TreeValue(heap, held) = snapshot

\* a caller holds a tree of two conditions in a group, and two or more calls
\* later the service holds another tree, which shares a condition object with
\* the held one
C13_Witness ==
  /\ held # NotHeld
  /\ held # subject
  /\ isBooleanNode(snapshot.root)
  /\ filterTree # snapshot
  /\ TreeCells(heap, held) \cap TreeCells(heap, subject) # {}

\* the form holds host.keyword is web01, AND status is_not 500, OR verb.keyword
\* is_one_of GET,POST
IsWorkedExample ==
  /\ Len(filters) = 3
  /\ filters[1] = Spread(BlankRow(""),
       [field |-> "host.keyword", operator |-> "is", value |-> "web01"])
  /\ filters[2] = Spread(BlankRow("AND"),
       [field |-> "status", operator |-> "is_not", value |-> "500"])
  /\ filters[3] = Spread(BlankRow("OR"),
       [field |-> "verb.keyword", operator |-> "is_one_of", value |-> "GET,POST"])

\* C21 as stated: for the list A, B, C with relations "", AND, OR the preview
\* text is "host.keyword: web01 AND (status: 500 OR verb.keyword: GET,POST)".
C21_WorkedExampleText ==
  IsWorkedExample
    => /\ Text(updatePreviewResult(filters).previewText)
            = "host.keyword: web01 AND (status: 500 OR verb.keyword: GET,POST)"
       /\ previewText # <<>>
            => Text(previewText)
                 = "host.keyword: web01 AND (status: 500 OR verb.keyword: GET,POST)"

\* C21 amended: for the list A, B, C with relations "", AND, OR the preview
\* text is "host.keyword: web01 AND (NOT status: 500 OR verb.keyword:
\* GET,POST)": the tail from B on is in parentheses and B, whose operator is
\* is_not, carries NOT.
C21_WorkedExampleTextWithNot ==
  IsWorkedExample
    => /\ Text(updatePreviewResult(filters).previewText)
            = "host.keyword: web01 AND (NOT status: 500 OR verb.keyword: GET,POST)"
       /\ previewText # <<>>
            => Text(previewText)
                 = "host.keyword: web01 AND (NOT status: 500 OR verb.keyword: GET,POST)"

\* updatePreview has run on the list A, B, C
C21_Witness == IsWorkedExample /\ previewText # <<>>

\* C26: for every form, the conditions of the preview are the rows that give
\* a clause to the document, in the same order: there are as many, and the
\* k-th text shown is the text of the row of the k-th clause.
C26_PreviewShowsCompiledRows ==
  LET exprs == filterExpressionsOf(filters, 1)
      queries == rowQueries(filters, 1)
  IN /\ Len(exprs) = Len(queries)
     /\ \A k \in 1..Len(queries) :
          exprs[k].text = filterTextOf(filters[queries[k].index + 1])

\* the number of "(" among the pieces of a preview
RECURSIVE OpenParens(_)
OpenParens(pieces) ==
  IF pieces = <<>> THEN 0
  ELSE (IF Head(pieces) = "(" THEN 1 ELSE 0) + OpenParens(Tail(pieces))

\* the number of BooleanNodes below node whose operator differs from that of
\* their parent
RECURSIVE DifferingGroups(_)
DifferingGroups(node) ==
  IF ~isBooleanNode(node) THEN 0
  ELSE LET RECURSIVE Sum(_)
           Sum(i) ==
             IF i > Len(node.children) THEN 0
             ELSE (IF isBooleanNode(node.children[i])
                        /\ node.children[i].operator # node.operator
                   THEN 1 ELSE 0)
                  + DifferingGroups(node.children[i]) + Sum(i + 1)
       IN Sum(1)

\* C29: the text of generatePreview has one "(" for each BooleanNode below the
\* root whose operator differs from its parent's, and no other.
C29_OnePairPerDifferingGroup ==
  filterTree.root # null
    => OpenParens(generatePreview(filterTree)) = DifferingGroups(filterTree.root)

NegatedOperators == {"is_not", "does_not_exist", "is_not_one_of"}

\* C22: the text of a condition starts with "NOT " in the tree's preview and
\* in the form's preview if and only if the operator of the condition is
\* is_not, does_not_exist or is_not_one_of.
C22_NotPrefixInBothPreviews ==
  LET tree == generatePreviewRecursive(arg, nullOperator)
      flat == updatePreviewResult(filters).previewText
  IN /\ (Head(tree) = "NOT ") <=> (arg.operator \in NegatedOperators)
     /\ flat # <<>>
     /\ (Head(flat) = "NOT ") <=> (filters[1].operator \in NegatedOperators)
     /\ previewText # <<>> => previewText = flat

\* C23: the clause that buildSingleFilterQuery builds for a condition is the
\* clause that generateQueryDSL builds for the row holding the same condition,
\* and the one returns no clause exactly when the other does; for a timestamp
\* field under is and is_not both build a term clause.
C23_OneClauseTable ==
  /\ buildSingleFilterQuery(arg) = rowQuery(filters[1])
  /\ (isDateField(arg.field) /\ arg.operator = "is")
       => /\ "term" \in DOMAIN buildSingleFilterQuery(arg)
          /\ "term" \in DOMAIN rowQuery(filters[1])
  /\ (ret # NotCalled /\ ret # null /\ showQueryDSL /\ raised = NoError)
       => queryDSL = [query |-> ret]

\* C27: after any sequence of addFilter(logic), addFilterWithLogic(index, logic)
\* with 0 <= index < number of rows, removeFilter(index) and resetForm on the
\* filter bar, a form with at least one row has the empty string as the logic of
\* its first row.
C27_FirstRowHasNoLogic ==
  Len(filters) >= 1 => filters[1].logic = ""

\* a full form whose later row was added with OR and whose first row is filled
C27_Witness ==
  /\ Len(filters) = MaxFormRows
  /\ filters[1].logic = ""
  /\ filters[1].field # ""
  /\ filters[2].logic = "OR"

\* C24: every FilterGroup that applyFilters emits carries a document
\* {query: clause} and at least one filter, and applyFilters emits nothing when
\* a row of the form lacks its field or operator or when no row is valid.
C24_SubmissionContract ==
  emitted # NotEmitted =>
    /\ DOMAIN emitted.queryDSL = {"query"}
    /\ IsClause(emitted.queryDSL.query)
    /\ Len(emitted.filters) >= 1
    /\ \A i \in 1..Len(filters) :
         filters[i].field # "" /\ filters[i].operator # ""
    /\ \E i \in 1..Len(filters) :
         \/ filters[i].value # ""
         \/ filters[i].minValue # ""
         \/ filters[i].maxValue # ""
         \/ filters[i].operator \in {"exists", "does_not_exist"}

\* a FilterGroup was emitted for a form that holds a row that is not valid
C24_Witness ==
  /\ emitted # NotEmitted
  /\ Len(emitted.filters) < Len(filters)

\* C30: a step of the wrapper's removeFilter(index) on an applied FilterGroup
\* either leaves no filter and sets activeFilters to null, or leaves the
\* previous list without element index together with the document that the
\* filter bar's generateQueryDSL produces for that remaining list.
C30_RemoveKeepsFlatDocument ==
  [][\A index \in 0..(MaxRows - 1) :
       wrapperRemoveFilter(index) =>
         IF Len(activeFilters.filters) = 1 THEN activeFilters' = null
         ELSE /\ activeFilters' # null
              /\ activeFilters'.filters = removeAt(activeFilters.filters, index)
              /\ activeFilters'.queryDSL =
                   generateFlatQueryDSL(activeFilters'.filters).queryDSL]_vars

RECURSIVE WellFormedClauses(_)
\* the clauses of the conditions of a list that are not skipped, in order
WellFormedClauses(filterList) ==
  IF filterList = <<>> THEN <<>>
  ELSE (IF backendQuery(Head(filterList)) # null
        THEN <<backendQuery(Head(filterList))>> ELSE <<>>)
         \o WellFormedClauses(Tail(filterList))

RECURSIVE GroupClauses(_)
\* the clauses of a list of groups: a group is one clause or a should of clauses
GroupClauses(queryGroups) ==
  IF queryGroups = <<>> THEN <<>>
  ELSE LET g == Head(queryGroups)
       IN (IF "bool" \in DOMAIN g /\ "should" \in DOMAIN g.bool
           THEN g.bool.should ELSE <<g>>)
            \o GroupClauses(Tail(queryGroups))

\* the clauses that a document of buildElasticsearchQuery holds
DocumentClauses(doc) ==
  IF "bool" \in DOMAIN doc.query /\ "must" \in DOMAIN doc.query.bool
  THEN GroupClauses(doc.query.bool.must)
  ELSE <<>>

\* C25: for every input list of buildElasticsearchQuery, the clauses of the
\* returned document are the clauses of the well-formed conditions of the
\* list, one each and in order, wherever the skipped conditions sit.
C25_SkippingKeepsWellFormed ==
  ret # NotCalled => DocumentClauses(ret) = WellFormedClauses(arg)

RECURSIVE FewParams(_)
\* a list of filters holds a combined filter of fewer than 2 params, at any depth
FewParams(filterList) ==
  \E i \in 1..Len(filterList) :
     /\ filterList[i] # undefined
     /\ isCombinedFilter(filterList[i])
     /\ \/ Len(filterList[i].meta.params) < 2
        \/ FewParams(filterList[i].meta.params)

\* C28: for every input list, no combined filter in the result of
\* normalizeFilters has fewer than 2 params, and normalizing the result again
\* gives the result.
C28_NormalizeFiltersOnePass ==
  ret # NotCalled =>
    /\ ~FewParams(ret.filters)
    /\ normalizeFilters(ret.filters) = ret.filters

====
